---- MODULE Spec2Model ----
(***************************************************************************)
(* A model of the document extraction agent: the extraction pipeline       *)
(* (agent/core.py with its collaborators), the validation rule engine      *)
(* (agent/validation_rules.py) and the confidence scorer                   *)
(* (utils/confidence_scorer.py).                                           *)
(*                                                                         *)
(* Python strings are sequences of one-character strings, so that strip,   *)
(* lower, substring tests, splitting and dotted-path joins are computed,   *)
(* not assumed.  Python objects are tagged tuples (see PyNone .. PyList).  *)
(* Floats are exact rationals <<numerator, denominator>>; binary rounding  *)
(* error of IEEE doubles is outside the model.                             *)
(***************************************************************************)
EXTENDS Integers, Sequences, FiniteSets, TLC

VARIABLES
    \* ---- run_extraction (agent/core.py) ----
    pc,                 \* position of run_extraction
    file,               \* the input file of the run
    raw_text,           \* document_data["text"]
    word_boxes,         \* document_data["word_boxes"]; also the scorer's token index
    detected_doc_type,  \* result of classify_document_type
    extracted_raw_data, \* extraction result, then its validated dump
    final_output,       \* the returned report (NoReport until returned)
    exception,          \* the exception that left run_extraction ("" if none)
    calls,              \* history: <<collaborator, what it did>> per call, in order
    \* ---- run_validation (agent/validation_rules.py) ----
    vpc,                \* position of run_validation
    v_doc_type,         \* its doc_type argument
    v_data,             \* its extracted_data argument
    v_result,           \* the returned ValidationResult (NoResult until returned)
    v_exception,        \* the exception that left run_validation ("" if none)
    \* ---- confidence scorer (utils/confidence_scorer.py) ----
    spc,                \* position of the scoring function under way
    extracted_data,     \* primary extraction
    qa_results,         \* validation result consumed by the scorer
    llm_raw_outputs,    \* the N repeated runs
    llm_consistency_scores, \* result of _calculate_llm_consistency
    cursor,             \* emission loop position: index of the next key of extracted_data
    formatted_fields,   \* fields emitted so far
    trace,              \* history: one record per call of the composite calculator
    overall_confidence  \* result of _calculate_overall_confidence (NoScore until set)

agent_vars == <<pc, file, raw_text, word_boxes, detected_doc_type,
                extracted_raw_data, final_output, exception, calls>>
valid_vars == <<vpc, v_doc_type, v_data, v_result, v_exception>>
score_vars == <<spc, extracted_data, qa_results, llm_raw_outputs,
                llm_consistency_scores, cursor, formatted_fields, trace,
                overall_confidence>>
vars == <<agent_vars, valid_vars, score_vars>>

----------------------------------------------------------------------------
(* Bounds of the model.                                                    *)

\* Most OCR tokens in a token index.
MaxTokens == 2
\* Most repeated extraction runs handed to the scorer.
MaxRuns == 2
\* Most elements of a list-of-mappings field (line items, medications).
MaxItems == 2

----------------------------------------------------------------------------
(* Python strings.                                                         *)

Whitespace == {" ", "\n", "\t"}
UpperCase == {"A", "I", "X"}

\* str.lower() on one character (the letters of the model's alphabet).
LowerChar(c) ==
    CASE c = "A" -> "a"
      [] c = "I" -> "i"
      [] c = "X" -> "x"
      [] OTHER -> c

\* str.lower()
Lower(s) == [i \in 1..Len(s) |-> LowerChar(s[i])]

RECURSIVE LStrip(_)
LStrip(s) ==
    IF s # <<>> /\ Head(s) \in Whitespace THEN LStrip(Tail(s)) ELSE s

RECURSIVE RStrip(_)
RStrip(s) ==
    IF s # <<>> /\ s[Len(s)] \in Whitespace
    THEN RStrip(SubSeq(s, 1, Len(s) - 1))
    ELSE s

\* str.strip()
Strip(s) == LStrip(RStrip(s))

\* Python's `a in b` on strings: a is a contiguous substring of b.
IsSubstring(a, b) ==
    \E i \in 0..(Len(b) - Len(a)) : SubSeq(b, i + 1, i + Len(a)) = a

\* The decimal digits of a natural number: str(n) for an int n >= 0.
DigitChar(d) ==
    CASE d = 0 -> "0" [] d = 1 -> "1" [] d = 2 -> "2" [] d = 3 -> "3"
      [] d = 4 -> "4" [] d = 5 -> "5" [] d = 6 -> "6" [] d = 7 -> "7"
      [] d = 8 -> "8" [] d = 9 -> "9"

RECURSIVE Digits(_)
Digits(n) ==
    IF n < 10 THEN <<DigitChar(n)>>
    ELSE Digits(n \div 10) \o <<DigitChar(n % 10)>>

RECURSIVE JoinAll(_, _)
\* sep.join(parts)
JoinAll(parts, sep) ==
    IF parts = <<>> THEN <<>>
    ELSE IF Len(parts) = 1 THEN parts[1]
    ELSE parts[1] \o sep \o JoinAll(Tail(parts), sep)

----------------------------------------------------------------------------
(* Python objects.                                                         *)

PyNone == <<"None">>
PyStr(s) == <<"str", s>>
PyInt(n) == <<"int", n>>
\* A Decimal, held as the digits it was built from (Decimal keeps them).
PyDec(s) == <<"decimal", s>>
\* A dict: its (key, value) pairs in insertion order, keys distinct.
PyDict(items) == <<"dict", items>>
PyList(items) == <<"list", items>>

IsDict(v) == v[1] = "dict"
IsList(v) == v[1] = "list"
IsStr(v) == v[1] = "str"
IsNone(v) == v[1] = "None"

\* isinstance(v, list) and all(isinstance(item, dict) for item in v)
IsListOfDicts(v) == IsList(v) /\ \A i \in 1..Len(v[2]) : IsDict(v[2][i])

DictKeys(d) == [i \in 1..Len(d[2]) |-> d[2][i][1]]
HasKey(d, k) == \E i \in 1..Len(d[2]) : d[2][i][1] = k
\* d[k] for a key that is present.
DictGet(d, k) == d[2][CHOOSE i \in 1..Len(d[2]) : d[2][i][1] = k][2]

S_None == <<"N", "o", "n", "e">>

RECURSIVE Repr(_)
RECURSIVE Str(_)
\* repr(): as str(), with a string in quotes.
Repr(v) ==
    CASE v[1] = "str" -> <<"'">> \o v[2] \o <<"'">>
      [] v[1] = "decimal" ->
            <<"D", "e", "c", "i", "m", "a", "l", "(", "'">> \o v[2]
                \o <<"'", ")">>
      [] OTHER -> Str(v)

\* str(): a string is itself, None is "None", an int its digits, a Decimal
\* the digits it was built from, a list "[a, b]" and a dict "{'k': v}".
Str(v) ==
    CASE v[1] = "str" -> v[2]
      [] v[1] = "None" -> S_None
      [] v[1] = "int" -> Digits(v[2])
      [] v[1] = "decimal" -> v[2]
      [] v[1] = "list" ->
            <<"[">> \o JoinAll([i \in 1..Len(v[2]) |-> Repr(v[2][i])],
                               <<",", " ">>) \o <<"]">>
      [] v[1] = "dict" ->
            <<"{">> \o JoinAll([i \in 1..Len(v[2]) |->
                                    Repr(PyStr(v[2][i][1])) \o <<":", " ">>
                                        \o Repr(v[2][i][2])],
                               <<",", " ">>) \o <<"}">>

----------------------------------------------------------------------------
(* String literals of the source.                                          *)

S_invoice == <<"i", "n", "v", "o", "i", "c", "e">>
S_medical_bill ==
    <<"m", "e", "d", "i", "c", "a", "l", "_", "b", "i", "l", "l">>
S_prescription ==
    <<"p", "r", "e", "s", "c", "r", "i", "p", "t", "i", "o", "n">>
S_unknown == <<"u", "n", "k", "n", "o", "w", "n">>
S_error == <<"e", "r", "r", "o", "r">>
S_ocr_failed == <<"o", "c", "r", "_", "f", "a", "i", "l", "e", "d">>
S_ocr_error == <<"o", "c", "r", "_", "e", "r", "r", "o", "r">>
S_classification_failed ==
    <<"c", "l", "a", "s", "s", "i", "f", "i", "c", "a", "t", "i", "o",
      "n", "_", "f", "a", "i", "l", "e", "d">>
S_schema_missing ==
    <<"s", "c", "h", "e", "m", "a", "_", "m", "i", "s", "s", "i", "n",
      "g">>
S_extraction_error ==
    <<"e", "x", "t", "r", "a", "c", "t", "i", "o", "n", "_", "e", "r",
      "r", "o", "r">>
S_doc_type == <<"d", "o", "c", "_", "t", "y", "p", "e">>
S_vendor_name == <<"v", "e", "n", "d", "o", "r", "_", "n", "a", "m", "e">>
S_invoice_number ==
    <<"i", "n", "v", "o", "i", "c", "e", "_", "n", "u", "m", "b", "e",
      "r">>
S_invoice_date ==
    <<"i", "n", "v", "o", "i", "c", "e", "_", "d", "a", "t", "e">>
S_due_date == <<"d", "u", "e", "_", "d", "a", "t", "e">>
S_total_amount ==
    <<"t", "o", "t", "a", "l", "_", "a", "m", "o", "u", "n", "t">>
S_subtotal == <<"s", "u", "b", "t", "o", "t", "a", "l">>
S_tax_amount == <<"t", "a", "x", "_", "a", "m", "o", "u", "n", "t">>
S_currency == <<"c", "u", "r", "r", "e", "n", "c", "y">>
S_line_items == <<"l", "i", "n", "e", "_", "i", "t", "e", "m", "s">>
S_description == <<"d", "e", "s", "c", "r", "i", "p", "t", "i", "o", "n">>
S_quantity == <<"q", "u", "a", "n", "t", "i", "t", "y">>
S_unit_price == <<"u", "n", "i", "t", "_", "p", "r", "i", "c", "e">>
S_line_total == <<"l", "i", "n", "e", "_", "t", "o", "t", "a", "l">>
S_patient_name ==
    <<"p", "a", "t", "i", "e", "n", "t", "_", "n", "a", "m", "e">>
S_patient_id == <<"p", "a", "t", "i", "e", "n", "t", "_", "i", "d">>
S_date_of_service_start ==
    <<"d", "a", "t", "e", "_", "o", "f", "_", "s", "e", "r", "v", "i",
      "c", "e", "_", "s", "t", "a", "r", "t">>
S_date_of_service_end ==
    <<"d", "a", "t", "e", "_", "o", "f", "_", "s", "e", "r", "v", "i",
      "c", "e", "_", "e", "n", "d">>
S_provider_name ==
    <<"p", "r", "o", "v", "i", "d", "e", "r", "_", "n", "a", "m", "e">>
S_total_charges ==
    <<"t", "o", "t", "a", "l", "_", "c", "h", "a", "r", "g", "e", "s">>
S_amount_due == <<"a", "m", "o", "u", "n", "t", "_", "d", "u", "e">>
S_insurance_paid ==
    <<"i", "n", "s", "u", "r", "a", "n", "c", "e", "_", "p", "a", "i",
      "d">>
S_services == <<"s", "e", "r", "v", "i", "c", "e", "s">>
S_service_date ==
    <<"s", "e", "r", "v", "i", "c", "e", "_", "d", "a", "t", "e">>
S_amount == <<"a", "m", "o", "u", "n", "t">>
S_cpt_code == <<"c", "p", "t", "_", "c", "o", "d", "e">>
S_patient_dob == <<"p", "a", "t", "i", "e", "n", "t", "_", "d", "o", "b">>
S_prescription_date ==
    <<"p", "r", "e", "s", "c", "r", "i", "p", "t", "i", "o", "n", "_",
      "d", "a", "t", "e">>
S_doctor_name == <<"d", "o", "c", "t", "o", "r", "_", "n", "a", "m", "e">>
S_doctor_license ==
    <<"d", "o", "c", "t", "o", "r", "_", "l", "i", "c", "e", "n", "s",
      "e">>
S_medications == <<"m", "e", "d", "i", "c", "a", "t", "i", "o", "n", "s">>
S_drug_name == <<"d", "r", "u", "g", "_", "n", "a", "m", "e">>
S_strength == <<"s", "t", "r", "e", "n", "g", "t", "h">>
S_dosage == <<"d", "o", "s", "a", "g", "e">>
S_frequency == <<"f", "r", "e", "q", "u", "e", "n", "c", "y">>
S_route == <<"r", "o", "u", "t", "e">>
S_dispense_quantity ==
    <<"d", "i", "s", "p", "e", "n", "s", "e", "_", "q", "u", "a", "n",
      "t", "i", "t", "y">>
S_refills == <<"r", "e", "f", "i", "l", "l", "s">>

----------------------------------------------------------------------------
(* models/schemas.py: the three document schemas.  A field is              *)
(* <<name, type, required, sub>>: type "str", "int", "decimal", "literal"  *)
(* or "list"; required FALSE for an Optional field (default None) and for  *)
(* the literal doc_type (default: the literal); sub is the literal's value *)
(* or the schema of the list's elements.                                   *)

NoSub == <<>>

LineItem ==
    << <<S_description, "str", TRUE, NoSub>>,
       <<S_quantity, "int", TRUE, NoSub>>,
       <<S_unit_price, "decimal", TRUE, NoSub>>,
       <<S_line_total, "decimal", TRUE, NoSub>> >>

InvoiceSchema ==
    << <<S_doc_type, "literal", FALSE, S_invoice>>,
       <<S_vendor_name, "str", TRUE, NoSub>>,
       <<S_invoice_number, "str", TRUE, NoSub>>,
       <<S_invoice_date, "str", TRUE, NoSub>>,
       <<S_due_date, "str", FALSE, NoSub>>,
       <<S_total_amount, "decimal", TRUE, NoSub>>,
       <<S_subtotal, "decimal", FALSE, NoSub>>,
       <<S_tax_amount, "decimal", FALSE, NoSub>>,
       <<S_currency, "str", TRUE, NoSub>>,
       <<S_line_items, "list", TRUE, LineItem>> >>

MedicalService ==
    << <<S_service_date, "str", TRUE, NoSub>>,
       <<S_description, "str", TRUE, NoSub>>,
       <<S_amount, "decimal", TRUE, NoSub>>,
       <<S_cpt_code, "str", FALSE, NoSub>> >>

MedicalBillSchema ==
    << <<S_doc_type, "literal", FALSE, S_medical_bill>>,
       <<S_patient_name, "str", TRUE, NoSub>>,
       <<S_patient_id, "str", FALSE, NoSub>>,
       <<S_date_of_service_start, "str", TRUE, NoSub>>,
       <<S_date_of_service_end, "str", FALSE, NoSub>>,
       <<S_provider_name, "str", TRUE, NoSub>>,
       <<S_total_charges, "decimal", TRUE, NoSub>>,
       <<S_amount_due, "decimal", TRUE, NoSub>>,
       <<S_insurance_paid, "decimal", FALSE, NoSub>>,
       <<S_services, "list", TRUE, MedicalService>> >>

MedicationDetail ==
    << <<S_drug_name, "str", TRUE, NoSub>>,
       <<S_strength, "str", TRUE, NoSub>>,
       <<S_dosage, "str", TRUE, NoSub>>,
       <<S_frequency, "str", TRUE, NoSub>>,
       <<S_route, "str", FALSE, NoSub>>,
       <<S_dispense_quantity, "str", FALSE, NoSub>>,
       <<S_refills, "str", FALSE, NoSub>> >>

PrescriptionSchema ==
    << <<S_doc_type, "literal", FALSE, S_prescription>>,
       <<S_patient_name, "str", TRUE, NoSub>>,
       <<S_patient_dob, "str", FALSE, NoSub>>,
       <<S_prescription_date, "str", TRUE, NoSub>>,
       <<S_doctor_name, "str", TRUE, NoSub>>,
       <<S_doctor_license, "str", FALSE, NoSub>>,
       <<S_medications, "list", TRUE, MedicationDetail>> >>

IsDigit(c) == c \in {"0", "1", "2", "3", "4", "5", "6", "7", "8", "9"}

AllDigits(s) == s # <<>> /\ \A i \in 1..Len(s) : IsDigit(s[i])

\* A plain decimal literal: digits with at most one dot and at least one
\* digit (the only number forms over the model's alphabet).
IsDecimalLiteral(s) ==
    /\ \A i \in 1..Len(s) : IsDigit(s[i]) \/ s[i] = "."
    /\ Cardinality({i \in 1..Len(s) : s[i] = "."}) <= 1
    /\ \E i \in 1..Len(s) : IsDigit(s[i])

\* The digits after the dot of a decimal literal.
FractionDigits(s) ==
    IF \E i \in 1..Len(s) : s[i] = "."
    THEN Len(s) - (CHOOSE i \in 1..Len(s) : s[i] = ".")
    ELSE 0

DigitValue(c) == CHOOSE d \in 0..9 : DigitChar(d) = c

RECURSIVE ParseNat(_)
\* int(s) for a string of digits.
ParseNat(s) ==
    IF s = <<>> THEN 0
    ELSE 10 * ParseNat(SubSeq(s, 1, Len(s) - 1)) + DigitValue(s[Len(s)])

\* pydantic's validation of one value against one field: <<ok, dumped>>.
\* A str field takes only a str; an int field an int or a string of
\* digits; a Decimal field an int or a decimal literal with at most two
\* decimal places; None only an Optional field.
Invalid == <<FALSE, PyNone>>

ValidateScalar(f, v) ==
    CASE IsNone(v) ->
            IF ~f[3] /\ f[2] # "literal" THEN <<TRUE, PyNone>> ELSE Invalid
      [] f[2] = "str" -> IF IsStr(v) THEN <<TRUE, v>> ELSE Invalid
      [] f[2] = "literal" -> IF v = PyStr(f[4]) THEN <<TRUE, v>> ELSE Invalid
      [] f[2] = "int" ->
            IF v[1] = "int" THEN <<TRUE, v>>
            ELSE IF IsStr(v) /\ AllDigits(Strip(v[2]))
                 THEN <<TRUE, PyInt(ParseNat(Strip(v[2])))>>
                 ELSE Invalid
      [] f[2] = "decimal" ->
            IF v[1] = "decimal" THEN <<TRUE, v>>
            ELSE IF v[1] = "int" THEN <<TRUE, PyDec(Digits(v[2]))>>
            ELSE IF /\ IsStr(v)
                    /\ IsDecimalLiteral(Strip(v[2]))
                    /\ FractionDigits(Strip(v[2])) <= 2
                 THEN <<TRUE, PyDec(Strip(v[2]))>>
                 ELSE Invalid
      [] OTHER -> Invalid

RECURSIVE ModelValidate(_, _)
\* schema.model_validate(data).model_dump(): <<ok, dump>>.  The dump holds
\* every field of the schema in declaration order, absent optional fields
\* as their defaults; keys the schema does not name are dropped.
ModelValidate(schema, data) ==
    IF ~IsDict(data) THEN Invalid
    ELSE
      LET One(f) ==
            IF ~HasKey(data, f[1])
            THEN IF f[3] THEN Invalid
                 ELSE IF f[2] = "literal" THEN <<TRUE, PyStr(f[4])>>
                 ELSE <<TRUE, PyNone>>
            ELSE LET v == DictGet(data, f[1]) IN
                 IF f[2] # "list" THEN ValidateScalar(f, v)
                 ELSE IF ~IsList(v) THEN Invalid
                 ELSE LET subs == [i \in 1..Len(v[2]) |->
                                      ModelValidate(f[4], v[2][i])] IN
                      IF \A i \in 1..Len(subs) : subs[i][1]
                      THEN <<TRUE, PyList([i \in 1..Len(subs) |-> subs[i][2]])>>
                      ELSE Invalid
          res == [i \in 1..Len(schema) |-> One(schema[i])]
      IN IF \A i \in 1..Len(res) : res[i][1]
         THEN <<TRUE, PyDict([i \in 1..Len(res) |-> <<schema[i][1], res[i][2]>>])>>
         ELSE Invalid

----------------------------------------------------------------------------
(* utils/tools.py: document ingestion and OCR.                             *)

\* All sequences over S of length at most n.
BoundedSeq(S, n) == UNION {[1..k -> S] : k \in 0..n}

\* An OCR token of the token index.  tools.py never sets "conf"; the
\* scorer reads it when present (has_conf).
Token(w, b, p) ==
    [word |-> w, bbox |-> b, page_num |-> p, has_conf |-> FALSE, conf |-> 0]

\* The input files: whether the path exists, and its lower-cased extension.
Files == [exists : BOOLEAN, ext : {".pdf", ".png", ".txt"}]

\* What the OCR libraries read from a file: a word is its text, four
\* numbers (PyMuPDF: x0, y0, x1, y1; Tesseract: left, top, width, height),
\* its 0-based page and Tesseract's confidence (-1 for a non-word).
RawWords ==
    { [text |-> <<"a">>, box |-> <<0, 0, 1, 1>>, page |-> 0, conf |-> 90],
      [text |-> <<" ">>, box |-> <<1, 1, 1, 1>>, page |-> 0, conf |-> 90],
      [text |-> <<"1">>, box |-> <<2, 0, 1, 2>>, page |-> 1, conf |-> -1] }

LibReadings ==
    { [ok |-> FALSE, text |-> <<>>, words |-> <<>>] }
    \cup [ok : {TRUE}, text : {<<>>, <<"\n">>, <<"a">>},
          words : BoundedSeq(RawWords, MaxTokens)]

\* _process_pdf: every non-blank word, pages numbered from 1; an error in
\* the library yields empty text and no words.
ProcessPdf(lib) ==
    IF ~lib.ok THEN [text |-> <<>>, word_boxes |-> <<>>]
    ELSE LET NonBlank(w) == Strip(w.text) # <<>>
             kept == SelectSeq(lib.words, NonBlank)
         IN [text |-> lib.text,
             word_boxes |-> [i \in 1..Len(kept) |->
                 Token(kept[i].text, kept[i].box, kept[i].page + 1)]]

\* _process_image: every non-blank word of confidence > 0, its box
\* converted from (left, top, width, height), always on page 1.
ProcessImage(lib) ==
    IF ~lib.ok THEN [text |-> <<>>, word_boxes |-> <<>>]
    ELSE LET Keep(w) == w.conf > 0 /\ Strip(w.text) # <<>>
             kept == SelectSeq(lib.words, Keep)
         IN [text |-> lib.text,
             word_boxes |-> [i \in 1..Len(kept) |->
                 Token(kept[i].text,
                       <<kept[i].box[1], kept[i].box[2],
                         kept[i].box[1] + kept[i].box[3],
                         kept[i].box[2] + kept[i].box[4]>>,
                       1)]]

\* process_document: <<exception, document_data>>, exception "" if none.
NoDocument == [text |-> <<>>, word_boxes |-> <<>>]

ProcessDocument(f, lib) ==
    IF ~f.exists THEN <<"FileNotFoundError", NoDocument>>
    ELSE IF f.ext = ".pdf" THEN <<"", ProcessPdf(lib)>>
    ELSE IF f.ext \in {".png", ".jpg", ".jpeg", ".tiff", ".bmp", ".gif"}
         THEN <<"", ProcessImage(lib)>>
    ELSE <<"ValueError", NoDocument>>

----------------------------------------------------------------------------
(* agent/document_router.py: classification.                               *)

S_Invoice_reply == <<" ", "I", "n", "v", "o", "i", "c", "e", "\n">>
S_receipt == <<"r", "e", "c", "e", "i", "p", "t">>

\* What the classification LLM call does: "raise" (the client cannot be
\* built: line 20, outside the function's own try), "fail" (the API call
\* or the reading of the reply fails inside it) or a reply.
ClassifierReplies ==
    { [kind |-> "raise", content |-> <<>>],
      [kind |-> "fail", content |-> <<>>] }
    \cup [kind : {"reply"},
          content : {S_invoice, S_Invoice_reply, S_medical_bill,
                     S_prescription, S_receipt, S_unknown, <<>>}]

allowed_types == {S_invoice, S_medical_bill, S_prescription}

\* A faulty classifier: the normalised reply is returned unfiltered.
ClassifyDocumentType_Unfiltered(llm) ==
    CASE llm.kind = "raise" -> <<"OpenAIError", <<>>>>
      [] llm.kind = "fail" -> <<"", S_unknown>>
      [] OTHER -> <<"", Lower(Strip(llm.content))>>

\* classify_document_type: <<exception, label>>.  The label is the
\* stripped, lower-cased reply if it is an allowed type, 'unknown'
\* otherwise and when the call fails.
ClassifyDocumentType(llm) ==
    CASE llm.kind = "raise" -> <<"OpenAIError", <<>>>>
      [] llm.kind = "fail" -> <<"", S_unknown>>
      [] OTHER ->
           LET detected_type == Lower(Strip(llm.content)) IN
           <<"", IF detected_type \in allowed_types THEN detected_type
                 ELSE S_unknown>>

----------------------------------------------------------------------------
(* agent/extraction_chain.py: extraction.                                  *)

EmptyMapping == PyDict(<<>>)

\* One line item as the LLM writes it.
LlmLineItem ==
    PyDict(<< <<S_description, PyStr(<<"a">>)>>, <<S_quantity, PyInt(1)>>,
              <<S_unit_price, PyStr(<<"1", ".", "0", "0">>)>>,
              <<S_line_total, PyStr(<<"1", ".", "0", "0">>)>> >>)

LlmInvoice(total, items) ==
    PyDict(<< <<S_vendor_name, PyStr(<<"a">>)>>,
              <<S_invoice_number, PyStr(<<"1">>)>>,
              <<S_invoice_date, PyStr(<<"a">>)>>,
              <<S_total_amount, total>>,
              <<S_currency, PyStr(<<"a">>)>>,
              <<S_line_items, PyList(items)>> >>)

LlmMedicalBill ==
    PyDict(<< <<S_patient_name, PyStr(<<"a">>)>>,
              <<S_date_of_service_start, PyStr(<<"a">>)>>,
              <<S_provider_name, PyStr(<<"a">>)>>,
              <<S_total_charges, PyInt(1)>>,
              <<S_amount_due, PyInt(1)>>,
              <<S_services, PyList(<<>>)>> >>)

LlmPrescription ==
    PyDict(<< <<S_patient_name, PyStr(<<"a">>)>>,
              <<S_prescription_date, PyStr(<<"a">>)>>,
              <<S_doctor_name, PyStr(<<"a">>)>>,
              <<S_medications, PyList(<<>>)>> >>)

\* The JSON objects the extraction LLM may reply with: nothing usable, a
\* mapping of one of the three shapes (with 0..MaxItems line items), or a
\* mapping the schema rejects (an amount that is no number, a required
\* field missing).
LlmMappings ==
    { EmptyMapping, LlmMedicalBill, LlmPrescription,
      LlmInvoice(PyStr(<<"a">>), <<>>),
      PyDict(<< <<S_vendor_name, PyStr(<<"a">>)>> >>) }
    \cup { LlmInvoice(PyStr(<<"1", ".", "0", "0">>), [i \in 1..k |-> LlmLineItem])
            : k \in 0..MaxItems }

\* What the extraction call does: "raise" (the client cannot be built, the
\* schema cannot be dumped: outside the function's own try), "fail" (the
\* API call or json.loads fails inside it) or a reply.
ExtractorReplies ==
    { [kind |-> "raise", data |-> EmptyMapping],
      [kind |-> "fail", data |-> EmptyMapping] }
    \cup [kind : {"reply"}, data : LlmMappings]

\* extract_document_data: <<exception, mapping>>; the empty mapping on a
\* failure inside its try.
ExtractDocumentData(llm) ==
    CASE llm.kind = "raise" -> <<"OpenAIError", EmptyMapping>>
      [] llm.kind = "fail" -> <<"", EmptyMapping>>
      [] OTHER -> <<"", llm.data>>

----------------------------------------------------------------------------
(* agent/core.py: DocumentExtractionAgent.                                 *)
(* Confidences are held in hundredths (0.5 is 50).                         *)

NoSource == [present |-> FALSE, page |-> 0, bbox |-> <<0, 0, 0, 0>>]

NoQa == [passed_rules |-> <<>>, failed_rules |-> <<>>, notes |-> ""]

NoReport ==
    [doc_type |-> <<>>, fields |-> <<>>, overall_confidence |-> 0, qa |-> NoQa]

\* A faulty _create_error_output: the error code is dropped and the
\* message is reported as the failed rule.
CreateErrorOutput_DropsCode(message, error_code) ==
    [doc_type |-> S_error,
     fields |-> <<>>,
     overall_confidence |-> 0,
     qa |-> [passed_rules |-> <<>>,
             failed_rules |-> <<S_error>>,
             notes |-> message]]

\* _create_error_output
CreateErrorOutput(message, error_code) ==
    [doc_type |-> S_error,
     fields |-> <<>>,
     overall_confidence |-> 0,
     qa |-> [passed_rules |-> <<>>,
             failed_rules |-> <<error_code>>,
             notes |-> message]]

\* DocumentExtractionAgent._find_bbox_for_value: <<exception, source>>.
\* Past the guard the method calls re.sub, and core.py does not import
\* re: the name lookup raises NameError before any token is looked at.
AgentFindBboxForValue(value, boxes) ==
    IF value = <<>> \/ boxes = <<>> THEN <<"", NoSource>>
    ELSE <<"NameError", NoSource>>

RECURSIVE Concat(_)
\* The concatenation of a sequence of sequences.
Concat(ss) == IF ss = <<>> THEN <<>> ELSE Head(ss) \o Concat(Tail(ss))

\* The (name, value) pairs _format_extracted_data makes fields of, in
\* order: a list of mappings gives key.<index>.<sub_key> per item entry,
\* anything else the key itself; every value through str().
FormatEntries(data) ==
    LET OfItem(key, i, item) ==
            [j \in 1..Len(item[2]) |->
                <<key \o <<".">> \o Digits(i - 1) \o <<".">> \o item[2][j][1],
                  Str(item[2][j][2])>>]
        OfKey(key, value) ==
            IF IsListOfDicts(value)
            THEN Concat([i \in 1..Len(value[2]) |-> OfItem(key, i, value[2][i])])
            ELSE << <<key, Str(value)>> >>
    IN Concat([k \in 1..Len(data[2]) |-> OfKey(data[2][k][1], data[2][k][2])])

\* _format_extracted_data: <<exception, fields>>.  Each field carries the
\* placeholder confidence 0.5; the first lookup that raises ends the loop.
FormatExtractedData(data, boxes) ==
    LET entries == FormatEntries(data)
        found == [i \in 1..Len(entries) |->
                     AgentFindBboxForValue(entries[i][2], boxes)]
    IN IF \E i \in 1..Len(found) : found[i][1] # ""
       THEN <<found[CHOOSE i \in 1..Len(found) :
                       /\ found[i][1] # ""
                       /\ \A j \in 1..(i - 1) : found[j][1] = ""][1],
              <<>>>>
       ELSE <<"",
              [i \in 1..Len(entries) |->
                  [name |-> entries[i][1], value |-> entries[i][2],
                   confidence |-> 50, source |-> found[i][2]]]>>

\* The schema run_extraction maps a detected type to.
SchemaFor(doc_type) ==
    CASE doc_type = S_invoice -> InvoiceSchema
      [] doc_type = S_medical_bill -> MedicalBillSchema
      [] doc_type = S_prescription -> PrescriptionSchema
      [] OTHER -> <<>>

InitAgent ==
    /\ pc = "start"
    /\ file \in Files
    /\ raw_text = <<>>
    /\ word_boxes = <<>>
    /\ detected_doc_type = <<>>
    /\ extracted_raw_data = EmptyMapping
    /\ final_output = NoReport
    /\ exception = ""
    /\ calls = <<>>

\* run_extraction, stage 1 (lines 34-43): OCR.  An exception of
\* process_document and an empty text both return an error report.
RunOcr ==
    /\ pc = "start"
    /\ \E lib \in LibReadings :
         LET r == ProcessDocument(file, lib) IN
         /\ calls' = Append(calls, <<"process_document",
                IF r[1] # "" THEN "raised"
                ELSE IF r[2].text = <<>> THEN "empty" ELSE "ok">>)
         /\ IF r[1] # ""
            THEN /\ final_output' = CreateErrorOutput(
                        "Error during OCR processing: " \o r[1], S_ocr_error)
                 /\ pc' = "returned"
                 /\ UNCHANGED <<raw_text, word_boxes>>
            ELSE /\ raw_text' = r[2].text
                 /\ word_boxes' = r[2].word_boxes
                 /\ IF r[2].text = <<>>
                    THEN /\ final_output' = CreateErrorOutput(
                                "OCR failed to extract text.", S_ocr_failed)
                         /\ pc' = "returned"
                    ELSE /\ pc' = "classify"
                         /\ UNCHANGED final_output
    /\ UNCHANGED <<file, detected_doc_type, extracted_raw_data, exception>>
    /\ UNCHANGED <<valid_vars, score_vars>>

\* run_extraction, stage 2 (lines 45-61): classification and the schema
\* lookup.  Nothing catches an exception of classify_document_type.
RunClassification ==
    /\ pc = "classify"
    /\ \E llm \in ClassifierReplies :
         LET r == ClassifyDocumentType(llm)
             t == r[2]
         IN
         /\ calls' = Append(calls, <<"classify_document_type",
                IF r[1] # "" THEN "raised"
                ELSE IF t = S_unknown THEN "unknown" ELSE "ok">>)
         /\ IF r[1] # ""
            THEN /\ exception' = r[1]
                 /\ pc' = "raised"
                 /\ UNCHANGED <<detected_doc_type, final_output>>
            ELSE /\ detected_doc_type' = t
                 /\ UNCHANGED exception
                 /\ IF t = S_unknown
                    THEN /\ final_output' = CreateErrorOutput(
                                "Could not classify document type.",
                                S_classification_failed)
                         /\ pc' = "returned"
                    ELSE IF SchemaFor(t) = <<>>
                    THEN /\ final_output' = CreateErrorOutput(
                                "No schema defined for document type",
                                S_schema_missing)
                         /\ pc' = "returned"
                    ELSE /\ pc' = "extract"
                         /\ UNCHANGED final_output
    /\ UNCHANGED <<file, raw_text, word_boxes, extracted_raw_data>>
    /\ UNCHANGED <<valid_vars, score_vars>>

\* run_extraction, stage 3 (lines 63-74): extraction and schema
\* validation, both inside one try.
RunExtractionStage ==
    /\ pc = "extract"
    /\ \E llm \in ExtractorReplies :
         LET r == ExtractDocumentData(llm)
             v == ModelValidate(SchemaFor(detected_doc_type), r[2])
         IN
         /\ calls' = Append(calls, <<"extract_document_data",
                IF r[1] # "" THEN "raised"
                ELSE IF r[2] = EmptyMapping THEN "empty"
                ELSE IF ~v[1] THEN "invalid" ELSE "ok">>)
         /\ IF r[1] # "" \/ ~v[1]
            THEN /\ final_output' = CreateErrorOutput(
                        "Error during data extraction or schema validation",
                        S_extraction_error)
                 /\ extracted_raw_data' = r[2]
                 /\ pc' = "returned"
            ELSE /\ extracted_raw_data' = v[2]
                 /\ pc' = "assemble"
                 /\ UNCHANGED final_output
    /\ UNCHANGED <<file, raw_text, word_boxes, detected_doc_type, exception>>
    /\ UNCHANGED <<valid_vars, score_vars>>

\* run_extraction, stages 4 and 5 (lines 76-94): the placeholder qa and
\* overall confidence, the fields, and the report.  Nothing catches an
\* exception of _format_extracted_data.
AssembleReport ==
    /\ pc = "assemble"
    /\ LET r == FormatExtractedData(extracted_raw_data, word_boxes) IN
       IF r[1] # ""
       THEN /\ exception' = r[1]
            /\ pc' = "raised"
            /\ UNCHANGED final_output
       ELSE /\ final_output' =
                [doc_type |-> detected_doc_type,
                 fields |-> r[2],
                 overall_confidence |-> 0,
                 qa |-> [passed_rules |-> <<>>, failed_rules |-> <<>>,
                         notes |-> "Validation not yet fully implemented."]]
            /\ pc' = "returned"
            /\ UNCHANGED exception
    /\ calls' = Append(calls, <<"_format_extracted_data", "called">>)
    /\ UNCHANGED <<file, raw_text, word_boxes, detected_doc_type,
                   extracted_raw_data>>
    /\ UNCHANGED <<valid_vars, score_vars>>


----------------------------------------------------------------------------
(* The specification of run_extraction: one run over any file and any      *)
(* behaviour of the three collaborators.                                   *)

NoResult == [passed_rules |-> <<>>, failed_rules |-> <<>>, notes |-> ""]
NoScore == -1

IdleValid ==
    /\ vpc = "idle"
    /\ v_doc_type = <<>>
    /\ v_data = EmptyMapping
    /\ v_result = NoResult
    /\ v_exception = ""

IdleScore ==
    /\ spc = "idle"
    /\ extracted_data = EmptyMapping
    /\ qa_results = NoQa
    /\ llm_raw_outputs = <<>>
    /\ llm_consistency_scores = <<>>
    /\ cursor = 1
    /\ formatted_fields = <<>>
    /\ trace = <<>>
    /\ overall_confidence = NoScore

Init == InitAgent /\ IdleValid /\ IdleScore

Next == RunOcr \/ RunClassification \/ RunExtractionStage \/ AssembleReport

Spec == Init /\ [][Next]_vars

----------------------------------------------------------------------------
(* Claims about run_extraction.                                            *)

\* What the last collaborator called did.
LastCall == calls[Len(calls)]

\* An upstream stage failed: OCR raised or read no text, classification
\* answered 'unknown', extraction raised or gave an empty or a
\* schema-invalid mapping.
UpstreamFailed ==
    /\ calls # <<>>
    /\ LastCall[2] \in {"raised", "empty", "unknown", "invalid"}
    /\ LastCall # <<"classify_document_type", "raised">>

\* The error code that names a failed stage.
StageErrorCode(call) ==
    CASE call = <<"process_document", "raised">> -> S_ocr_error
      [] call = <<"process_document", "empty">> -> S_ocr_failed
      [] call[1] = "classify_document_type" -> S_classification_failed
      [] call[1] = "extract_document_data" -> S_extraction_error

\* C1: run_extraction never propagates an exception to its caller; every
\* run, the fully successful one over a non-empty token index included,
\* ends by returning a report.
C1_NeverPropagates == pc # "raised" /\ exception = ""

\* C2: whenever an upstream stage fails, the returned report has doc_type
\* 'error', no fields, overall confidence 0.0, no passed rules, and as
\* failed rules exactly the one error code of the stage that failed; and
\* the run ends there.
C2_ErrorReport ==
    UpstreamFailed =>
        /\ pc = "returned"
        /\ final_output.doc_type = S_error
        /\ final_output.fields = <<>>
        /\ final_output.overall_confidence = 0
        /\ final_output.qa.passed_rules = <<>>
        /\ final_output.qa.failed_rules = <<StageErrorCode(LastCall)>>

\* C2's case: every kind of upstream failure is reached.
C2_Witness ==
    /\ UpstreamFailed
    /\ LastCall = <<"extract_document_data", "invalid">>
    /\ final_output.qa.failed_rules = <<S_extraction_error>>

----------------------------------------------------------------------------
(* agent/validation_rules.py: the rule ids.                                *)

S_invoice_date_format_valid ==
    <<"i", "n", "v", "o", "i", "c", "e", "_", "d", "a", "t", "e", "_",
      "f", "o", "r", "m", "a", "t", "_", "v", "a", "l", "i", "d">>
S_invoice_date_format_invalid ==
    <<"i", "n", "v", "o", "i", "c", "e", "_", "d", "a", "t", "e", "_",
      "f", "o", "r", "m", "a", "t", "_", "i", "n", "v", "a", "l", "i",
      "d">>
S_due_date_format_valid ==
    <<"d", "u", "e", "_", "d", "a", "t", "e", "_", "f", "o", "r", "m",
      "a", "t", "_", "v", "a", "l", "i", "d">>
S_due_date_format_invalid ==
    <<"d", "u", "e", "_", "d", "a", "t", "e", "_", "f", "o", "r", "m",
      "a", "t", "_", "i", "n", "v", "a", "l", "i", "d">>
S_total_amount_numeric_valid ==
    <<"t", "o", "t", "a", "l", "_", "a", "m", "o", "u", "n", "t", "_",
      "n", "u", "m", "e", "r", "i", "c", "_", "v", "a", "l", "i", "d">>
S_total_amount_numeric_invalid ==
    <<"t", "o", "t", "a", "l", "_", "a", "m", "o", "u", "n", "t", "_",
      "n", "u", "m", "e", "r", "i", "c", "_", "i", "n", "v", "a", "l",
      "i", "d">>
S_subtotal_numeric_valid ==
    <<"s", "u", "b", "t", "o", "t", "a", "l", "_", "n", "u", "m", "e",
      "r", "i", "c", "_", "v", "a", "l", "i", "d">>
S_subtotal_numeric_invalid ==
    <<"s", "u", "b", "t", "o", "t", "a", "l", "_", "n", "u", "m", "e",
      "r", "i", "c", "_", "i", "n", "v", "a", "l", "i", "d">>
S_tax_amount_numeric_valid ==
    <<"t", "a", "x", "_", "a", "m", "o", "u", "n", "t", "_", "n", "u",
      "m", "e", "r", "i", "c", "_", "v", "a", "l", "i", "d">>
S_tax_amount_numeric_invalid ==
    <<"t", "a", "x", "_", "a", "m", "o", "u", "n", "t", "_", "n", "u",
      "m", "e", "r", "i", "c", "_", "i", "n", "v", "a", "l", "i", "d">>
S_line_items_sum_matches_total ==
    <<"l", "i", "n", "e", "_", "i", "t", "e", "m", "s", "_", "s", "u",
      "m", "_", "m", "a", "t", "c", "h", "e", "s", "_", "t", "o", "t",
      "a", "l">>
S_line_items_sum_mismatch ==
    <<"l", "i", "n", "e", "_", "i", "t", "e", "m", "s", "_", "s", "u",
      "m", "_", "m", "i", "s", "m", "a", "t", "c", "h">>
S_line_items_sum_check_failed_parsing ==
    <<"l", "i", "n", "e", "_", "i", "t", "e", "m", "s", "_", "s", "u",
      "m", "_", "c", "h", "e", "c", "k", "_", "f", "a", "i", "l", "e",
      "d", "_", "p", "a", "r", "s", "i", "n", "g">>
S_line_items_or_total_missing_for_sum_check ==
    <<"l", "i", "n", "e", "_", "i", "t", "e", "m", "s", "_", "o", "r",
      "_", "t", "o", "t", "a", "l", "_", "m", "i", "s", "s", "i", "n",
      "g", "_", "f", "o", "r", "_", "s", "u", "m", "_", "c", "h", "e",
      "c", "k">>
S_service_start_date_format_valid ==
    <<"s", "e", "r", "v", "i", "c", "e", "_", "s", "t", "a", "r", "t",
      "_", "d", "a", "t", "e", "_", "f", "o", "r", "m", "a", "t", "_",
      "v", "a", "l", "i", "d">>
S_service_start_date_format_invalid ==
    <<"s", "e", "r", "v", "i", "c", "e", "_", "s", "t", "a", "r", "t",
      "_", "d", "a", "t", "e", "_", "f", "o", "r", "m", "a", "t", "_",
      "i", "n", "v", "a", "l", "i", "d">>
S_total_charges_numeric_valid ==
    <<"t", "o", "t", "a", "l", "_", "c", "h", "a", "r", "g", "e", "s",
      "_", "n", "u", "m", "e", "r", "i", "c", "_", "v", "a", "l", "i",
      "d">>
S_total_charges_numeric_invalid ==
    <<"t", "o", "t", "a", "l", "_", "c", "h", "a", "r", "g", "e", "s",
      "_", "n", "u", "m", "e", "r", "i", "c", "_", "i", "n", "v", "a",
      "l", "i", "d">>
S_amount_due_numeric_valid ==
    <<"a", "m", "o", "u", "n", "t", "_", "d", "u", "e", "_", "n", "u",
      "m", "e", "r", "i", "c", "_", "v", "a", "l", "i", "d">>
S_amount_due_numeric_invalid ==
    <<"a", "m", "o", "u", "n", "t", "_", "d", "u", "e", "_", "n", "u",
      "m", "e", "r", "i", "c", "_", "i", "n", "v", "a", "l", "i", "d">>
S_charges_balance_check_valid ==
    <<"c", "h", "a", "r", "g", "e", "s", "_", "b", "a", "l", "a", "n",
      "c", "e", "_", "c", "h", "e", "c", "k", "_", "v", "a", "l", "i",
      "d">>
S_charges_balance_check_mismatch ==
    <<"c", "h", "a", "r", "g", "e", "s", "_", "b", "a", "l", "a", "n",
      "c", "e", "_", "c", "h", "e", "c", "k", "_", "m", "i", "s", "m",
      "a", "t", "c", "h">>
S_charges_balance_check_failed_parsing ==
    <<"c", "h", "a", "r", "g", "e", "s", "_", "b", "a", "l", "a", "n",
      "c", "e", "_", "c", "h", "e", "c", "k", "_", "f", "a", "i", "l",
      "e", "d", "_", "p", "a", "r", "s", "i", "n", "g">>
S_prescription_date_format_valid ==
    <<"p", "r", "e", "s", "c", "r", "i", "p", "t", "i", "o", "n", "_",
      "d", "a", "t", "e", "_", "f", "o", "r", "m", "a", "t", "_", "v",
      "a", "l", "i", "d">>
S_prescription_date_format_invalid ==
    <<"p", "r", "e", "s", "c", "r", "i", "p", "t", "i", "o", "n", "_",
      "d", "a", "t", "e", "_", "f", "o", "r", "m", "a", "t", "_", "i",
      "n", "v", "a", "l", "i", "d">>
S_at_least_one_medication_listed ==
    <<"a", "t", "_", "l", "e", "a", "s", "t", "_", "o", "n", "e", "_",
      "m", "e", "d", "i", "c", "a", "t", "i", "o", "n", "_", "l", "i",
      "s", "t", "e", "d">>
S_no_medication_listed ==
    <<"n", "o", "_", "m", "e", "d", "i", "c", "a", "t", "i", "o", "n",
      "_", "l", "i", "s", "t", "e", "d">>
S_medication_ == <<"m", "e", "d", "i", "c", "a", "t", "i", "o", "n", "_">>
S_sfx_drug_name_missing ==
    <<"_", "d", "r", "u", "g", "_", "n", "a", "m", "e", "_", "m", "i",
      "s", "s", "i", "n", "g">>
S_sfx_drug_name_present ==
    <<"_", "d", "r", "u", "g", "_", "n", "a", "m", "e", "_", "p", "r",
      "e", "s", "e", "n", "t">>
S_sfx_dosage_missing ==
    <<"_", "d", "o", "s", "a", "g", "e", "_", "m", "i", "s", "s", "i",
      "n", "g">>
S_sfx_dosage_present ==
    <<"_", "d", "o", "s", "a", "g", "e", "_", "p", "r", "e", "s", "e",
      "n", "t">>
S_sfx_frequency_missing ==
    <<"_", "f", "r", "e", "q", "u", "e", "n", "c", "y", "_", "m", "i",
      "s", "s", "i", "n", "g">>
S_sfx_frequency_present ==
    <<"_", "f", "r", "e", "q", "u", "e", "n", "c", "y", "_", "p", "r",
      "e", "s", "e", "n", "t">>
S_no_validation_rules_for_type_ ==
    <<"n", "o", "_", "v", "a", "l", "i", "d", "a", "t", "i", "o", "n",
      "_", "r", "u", "l", "e", "s", "_", "f", "o", "r", "_", "t", "y",
      "p", "e", "_">>

----------------------------------------------------------------------------
(* agent/validation_rules.py: the checks.                                  *)
(* Numbers are held in thousandths (1.00 is 1000).                         *)

\* bool(v): None, "", 0, a zero Decimal, [] and {} are false.
Truthy(v) ==
    CASE v[1] = "None" -> FALSE
      [] v[1] = "int" -> v[2] # 0
      [] v[1] = "decimal" -> \E i \in 1..Len(v[2]) : v[2][i] \in {"1", "2", "3", "4", "5", "6", "7", "8", "9"}
      [] OTHER -> v[2] # <<>>

\* The number of days of a month (February by the Gregorian leap rule).
DaysInMonth(y, m) ==
    IF m = 2
    THEN IF (y % 4 = 0 /\ y % 100 # 0) \/ y % 400 = 0 THEN 29 ELSE 28
    ELSE IF m \in {4, 6, 9, 11} THEN 30 ELSE 31

\* strptime's %m: 1[0-2] | 0[1-9] | [1-9].
IsMonthText(t) ==
    \/ Len(t) = 2 /\ t[1] = "1" /\ t[2] \in {"0", "1", "2"}
    \/ Len(t) = 2 /\ t[1] = "0" /\ IsDigit(t[2]) /\ t[2] # "0"
    \/ Len(t) = 1 /\ IsDigit(t[1]) /\ t[1] # "0"

\* strptime's %d: 3[01] | [12]\d | 0[1-9] | [1-9] | " "[1-9].
IsDayText(t) ==
    \/ Len(t) = 2 /\ t[1] = "3" /\ t[2] \in {"0", "1"}
    \/ Len(t) = 2 /\ t[1] \in {"1", "2"} /\ IsDigit(t[2])
    \/ Len(t) = 2 /\ t[1] \in {"0", " "} /\ IsDigit(t[2]) /\ t[2] # "0"
    \/ Len(t) = 1 /\ IsDigit(t[1]) /\ t[1] # "0"

\* datetime.strptime(s, "%Y-%m-%d") succeeds: four year digits, a dash, a
\* month, a dash, a day and nothing else, naming a day that exists.
ParsesAsDate(s) ==
    /\ Len(s) >= 8
    /\ AllDigits(SubSeq(s, 1, 4))
    /\ s[5] = "-"
    /\ \E k \in {7, 8} :
        /\ k < Len(s)
        /\ s[k] = "-"
        /\ LET mt == SubSeq(s, 6, k - 1)
               dt == SubSeq(s, k + 1, Len(s))
           IN /\ IsMonthText(mt)
              /\ IsDayText(dt)
              /\ ParseNat(SubSeq(s, 1, 4)) >= 1
              /\ ParseNat(LStrip(dt)) <=
                    DaysInMonth(ParseNat(SubSeq(s, 1, 4)), ParseNat(mt))

\* _is_valid_date: <<exception, result>>.  strptime raises TypeError for
\* an argument that is no str, and the function catches only ValueError.
IsValidDate(v) ==
    IF ~IsStr(v) THEN <<"TypeError", FALSE>>
    ELSE <<"", ParsesAsDate(v[2])>>

\* A string float() accepts: surrounding whitespace, a sign, then a plain
\* decimal literal (exponents, inf, nan and digit grouping need
\* characters the model's strings never hold).
IsFloatText(s) ==
    LET t == Strip(s)
        u == IF t # <<>> /\ t[1] \in {"-", "+"} THEN Tail(t) ELSE t
    IN IsDecimalLiteral(u)

\* _is_valid_decimal: float(value) succeeds; ValueError and TypeError are
\* both caught.
IsValidDecimal(v) ==
    CASE v[1] = "int" -> TRUE
      [] v[1] = "decimal" -> TRUE
      [] v[1] = "str" -> IsFloatText(v[2])
      [] OTHER -> FALSE

\* The value of a plain decimal literal, in thousandths.
LiteralMilli(u) ==
    LET dot == IF \E i \in 1..Len(u) : u[i] = "."
               THEN CHOOSE i \in 1..Len(u) : u[i] = "."
               ELSE Len(u) + 1
        whole == SubSeq(u, 1, dot - 1)
        frac == SubSeq(u, dot + 1, Len(u))
        frac3 == SubSeq(frac \o <<"0", "0", "0">>, 1, 3)
    IN 1000 * ParseNat(whole) + ParseNat(frac3)

\* float(v) for a value float() accepts, in thousandths.
FloatMilli(v) ==
    CASE v[1] = "int" -> 1000 * v[2]
      [] OTHER ->
            LET t == Strip(v[2]) IN
            IF t[1] = "-" THEN 0 - LiteralMilli(Tail(t))
            ELSE IF t[1] = "+" THEN LiteralMilli(Tail(t))
            ELSE LiteralMilli(t)

Abs(x) == IF x < 0 THEN 0 - x ELSE x

RECURSIVE SumSeq(_)
SumSeq(xs) == IF xs = <<>> THEN 0 ELSE Head(xs) + SumSeq(Tail(xs))

\* A rule outcome: <<exception, passed ids, failed ids>>.
Passed(id) == <<"", <<id>>, <<>>>>
Failed(id) == <<"", <<>>, <<id>>>>
NoRule == <<"", <<>>, <<>>>>
Raised(e) == <<e, <<>>, <<>>>>

RECURSIVE RunRules(_)
\* The rules of one validator in order: their ids appended, up to the
\* first rule that raises.
RunRules(rules) ==
    IF rules = <<>> THEN NoRule
    ELSE IF Head(rules)[1] # "" THEN Raised(Head(rules)[1])
    ELSE LET rest == RunRules(Tail(rules)) IN
         IF rest[1] # "" THEN rest
         ELSE <<"", Head(rules)[2] \o rest[2], Head(rules)[3] \o rest[3]>>

\* d.get(k): the value, or None when the key is absent.
DictGetOrNone(d, k) == IF HasKey(d, k) THEN DictGet(d, k) ELSE PyNone

\* A required date: `k in data and _is_valid_date(data[k])`.
RequiredDateRule(d, k, valid_id, invalid_id) ==
    IF ~HasKey(d, k) THEN Failed(invalid_id)
    ELSE LET r == IsValidDate(DictGet(d, k)) IN
         IF r[1] # "" THEN Raised(r[1])
         ELSE IF r[2] THEN Passed(valid_id) ELSE Failed(invalid_id)

\* The optional due_date: checked when present and truthy; a failure only
\* when present and not None.
OptionalDateRule(d, k, valid_id, invalid_id) ==
    LET absent == IF HasKey(d, k) /\ ~IsNone(DictGet(d, k))
                  THEN Failed(invalid_id) ELSE NoRule
    IN IF ~HasKey(d, k) \/ ~Truthy(DictGet(d, k)) THEN absent
       ELSE LET r == IsValidDate(DictGet(d, k)) IN
            IF r[1] # "" THEN Raised(r[1])
            ELSE IF r[2] THEN Passed(valid_id) ELSE absent

\* A required number: `k in data and _is_valid_decimal(data[k])`.
RequiredNumberRule(d, k, valid_id, invalid_id) ==
    IF HasKey(d, k) /\ IsValidDecimal(DictGet(d, k))
    THEN Passed(valid_id) ELSE Failed(invalid_id)

\* An optional number: passes when present and None or a number, fails
\* when present and anything else, says nothing when absent.
OptionalNumberRule(d, k, valid_id, invalid_id) ==
    IF HasKey(d, k) /\ (IsNone(DictGet(d, k)) \/ IsValidDecimal(DictGet(d, k)))
    THEN Passed(valid_id)
    ELSE IF HasKey(d, k) /\ ~IsNone(DictGet(d, k))
         THEN Failed(invalid_id) ELSE NoRule

\* What iterating a value yields: <<exception, elements>>.  A str yields
\* its characters, a dict its keys, None and numbers are not iterable.
Iterate(v) ==
    CASE v[1] = "list" -> <<"", v[2]>>
      [] v[1] = "str" -> <<"", [i \in 1..Len(v[2]) |-> PyStr(<<v[2][i]>>)]>>
      [] v[1] = "dict" -> <<"", [i \in 1..Len(v[2]) |-> PyStr(v[2][i][1])]>>
      [] OTHER -> <<"TypeError", <<>>>>

\* A faulty sum rule: the sum must equal total_amount exactly.
LineItemsSumRule_ExactEquality(d) ==
    IF ~(HasKey(d, S_total_amount) /\ HasKey(d, S_line_items))
    THEN Failed(S_line_items_or_total_missing_for_sum_check)
    ELSE IF ~IsValidDecimal(DictGet(d, S_total_amount))
    THEN Failed(S_line_items_sum_check_failed_parsing)
    ELSE LET it == Iterate(DictGet(d, S_line_items))
             items == it[2]
             Counted(item) == IsValidDecimal(DictGetOrNone(item, S_line_total))
             counted == SelectSeq(items, Counted)
             calculated == SumSeq([i \in 1..Len(counted) |->
                              FloatMilli(DictGet(counted[i], S_line_total))])
             expected == FloatMilli(DictGet(d, S_total_amount))
         IN IF it[1] # "" THEN Failed(S_line_items_sum_check_failed_parsing)
            ELSE IF \E i \in 1..Len(items) : ~IsDict(items[i])
            THEN Raised("AttributeError")
            ELSE IF expected = calculated
            THEN Passed(S_line_items_sum_matches_total)
            ELSE Failed(S_line_items_sum_mismatch)

\* Rule 3 of validate_invoice: the line totals that are numbers must sum
\* to total_amount within 0.01.  The try catches ValueError and TypeError
\* (total_amount no number, line_items not iterable); item.get on an
\* element that is no dict raises AttributeError, which it does not catch.
LineItemsSumRule(d) ==
    IF ~(HasKey(d, S_total_amount) /\ HasKey(d, S_line_items))
    THEN Failed(S_line_items_or_total_missing_for_sum_check)
    ELSE IF ~IsValidDecimal(DictGet(d, S_total_amount))
    THEN Failed(S_line_items_sum_check_failed_parsing)
    ELSE LET it == Iterate(DictGet(d, S_line_items))
             items == it[2]
             Counted(item) == IsValidDecimal(DictGetOrNone(item, S_line_total))
             counted == SelectSeq(items, Counted)
             calculated == SumSeq([i \in 1..Len(counted) |->
                              FloatMilli(DictGet(counted[i], S_line_total))])
             expected == FloatMilli(DictGet(d, S_total_amount))
         IN IF it[1] # "" THEN Failed(S_line_items_sum_check_failed_parsing)
            ELSE IF \E i \in 1..Len(items) : ~IsDict(items[i])
            THEN Raised("AttributeError")
            ELSE IF Abs(expected - calculated) < 10
            THEN Passed(S_line_items_sum_matches_total)
            ELSE Failed(S_line_items_sum_mismatch)

\* validate_invoice: <<exception, passed_rules, failed_rules>>.
ValidateInvoice(d) ==
    RunRules(<<
        RequiredDateRule(d, S_invoice_date, S_invoice_date_format_valid,
                         S_invoice_date_format_invalid),
        OptionalDateRule(d, S_due_date, S_due_date_format_valid,
                         S_due_date_format_invalid),
        RequiredNumberRule(d, S_total_amount, S_total_amount_numeric_valid,
                           S_total_amount_numeric_invalid),
        OptionalNumberRule(d, S_subtotal, S_subtotal_numeric_valid,
                           S_subtotal_numeric_invalid),
        OptionalNumberRule(d, S_tax_amount, S_tax_amount_numeric_valid,
                           S_tax_amount_numeric_invalid),
        LineItemsSumRule(d) >>)

\* The balance rule of validate_medical_bill: total_charges must equal
\* amount_due + insurance_paid within 0.01 when total_charges and
\* amount_due are numbers and insurance_paid is present and None or a
\* number; otherwise the rule says nothing.
ChargesBalanceRule(d) ==
    IF /\ \A k \in {S_total_charges, S_amount_due} :
            HasKey(d, k) /\ IsValidDecimal(DictGet(d, k))
       /\ HasKey(d, S_insurance_paid)
       /\ \/ IsNone(DictGet(d, S_insurance_paid))
          \/ IsValidDecimal(DictGet(d, S_insurance_paid))
    THEN LET total_charges == FloatMilli(DictGet(d, S_total_charges))
             amount_due == FloatMilli(DictGet(d, S_amount_due))
             insurance_paid ==
                IF IsNone(DictGet(d, S_insurance_paid)) THEN 0
                ELSE FloatMilli(DictGet(d, S_insurance_paid))
         IN IF Abs(total_charges - (amount_due + insurance_paid)) < 10
            THEN Passed(S_charges_balance_check_valid)
            ELSE Failed(S_charges_balance_check_mismatch)
    ELSE NoRule

\* validate_medical_bill
ValidateMedicalBill(d) ==
    RunRules(<<
        RequiredDateRule(d, S_date_of_service_start,
                         S_service_start_date_format_valid,
                         S_service_start_date_format_invalid),
        RequiredNumberRule(d, S_total_charges, S_total_charges_numeric_valid,
                           S_total_charges_numeric_invalid),
        RequiredNumberRule(d, S_amount_due, S_amount_due_numeric_valid,
                           S_amount_due_numeric_invalid),
        ChargesBalanceRule(d) >>)

\* A faulty sub-field rule: a missing sub-field records nothing.
MedicationFieldRule_SilentMissing(med, i, field, present_sfx, missing_sfx) ==
    IF ~IsDict(med) THEN Raised("AttributeError")
    ELSE IF ~Truthy(DictGetOrNone(med, field)) THEN NoRule
    ELSE Passed(S_medication_ \o Digits(i) \o present_sfx)

\* One sub-field of one medication: `not med.get(field)`.  med.get on an
\* element that is no dict raises AttributeError.
MedicationFieldRule(med, i, field, present_sfx, missing_sfx) ==
    IF ~IsDict(med) THEN Raised("AttributeError")
    ELSE IF ~Truthy(DictGetOrNone(med, field))
    THEN Failed(S_medication_ \o Digits(i) \o missing_sfx)
    ELSE Passed(S_medication_ \o Digits(i) \o present_sfx)

\* Rule 3 of validate_prescription: drug_name, dosage and frequency of
\* every element of the medications list, indexed from 0.
MedicationRules(d) ==
    IF HasKey(d, S_medications) /\ IsList(DictGet(d, S_medications))
    THEN LET meds == DictGet(d, S_medications)[2] IN
         RunRules(Concat([i \in 1..Len(meds) |->
            << MedicationFieldRule(meds[i], i - 1, S_drug_name,
                                   S_sfx_drug_name_present, S_sfx_drug_name_missing),
               MedicationFieldRule(meds[i], i - 1, S_dosage,
                                   S_sfx_dosage_present, S_sfx_dosage_missing),
               MedicationFieldRule(meds[i], i - 1, S_frequency,
                                   S_sfx_frequency_present,
                                   S_sfx_frequency_missing) >>]))
    ELSE NoRule

\* validate_prescription
ValidatePrescription(d) ==
    RunRules(<<
        RequiredDateRule(d, S_prescription_date, S_prescription_date_format_valid,
                         S_prescription_date_format_invalid),
        IF /\ HasKey(d, S_medications)
           /\ IsList(DictGet(d, S_medications))
           /\ DictGet(d, S_medications)[2] # <<>>
        THEN Passed(S_at_least_one_medication_listed)
        ELSE Failed(S_no_medication_listed),
        MedicationRules(d) >>)

\* A faulty dispatch: a doc_type without rules fails nothing.
RunValidation_UnknownPasses(doc_type, d) ==
    LET r == CASE doc_type = S_invoice -> ValidateInvoice(d)
               [] doc_type = S_medical_bill -> ValidateMedicalBill(d)
               [] doc_type = S_prescription -> ValidatePrescription(d)
               [] OTHER -> NoRule
    IN <<r[1],
         [passed_rules |-> r[2],
          failed_rules |-> r[3],
          notes |-> IF r[3] # <<>>
                    THEN ToString(Len(r[3])) \o " validation rule(s) failed."
                    ELSE "All primary validation rules passed."]>>

\* run_validation: <<exception, ValidationResult>>.  The notes count the
\* failed rules.
RunValidation(doc_type, d) ==
    LET r == CASE doc_type = S_invoice -> ValidateInvoice(d)
               [] doc_type = S_medical_bill -> ValidateMedicalBill(d)
               [] doc_type = S_prescription -> ValidatePrescription(d)
               [] OTHER -> Failed(S_no_validation_rules_for_type_ \o doc_type)
    IN <<r[1],
         [passed_rules |-> r[2],
          failed_rules |-> r[3],
          notes |-> IF r[3] # <<>>
                    THEN ToString(Len(r[3])) \o " validation rule(s) failed."
                    ELSE "All primary validation rules passed."]>>

----------------------------------------------------------------------------
(* The specification of run_validation: one call over any doc_type and a   *)
(* mapping whose fields may each be absent, null, well-formed, malformed   *)
(* or of the wrong type.                                                   *)

S_date_ok == <<"2", "0", "2", "4", "-", "0", "1", "-", "1", "5">>
S_date_bad == <<"2", "0", "2", "4", "-", "1", "3", "-", "4", "5">>
S_100_00 == <<"1", "0", "0", ".", "0", "0">>
S_50_00 == <<"5", "0", ".", "0", "0">>
S_40_00 == <<"4", "0", ".", "0", "0">>
S_49_995 == <<"4", "9", ".", "9", "9", "5">>

\* Marks a key left out of a mapping.
Absent == <<"absent">>

\* The dict of the keys whose value is not Absent, in the order given.
MakeDict(pairs) ==
    LET Present(p) == p[2] # Absent IN PyDict(SelectSeq(pairs, Present))

S_date_short == <<"2", "0", "2", "4", "-", "1", "-", "5">>

\* The values of a date field: absent, None, a date, a day that does not
\* exist, a date whose month and day have one digit.
DateValues ==
    {Absent, PyNone, PyStr(S_date_ok), PyStr(S_date_bad), PyStr(S_date_short)}
\* The values of a number field: absent, None, two numbers, a non-number.
NumberValues ==
    {Absent, PyNone, PyStr(S_100_00), PyStr(S_50_00), PyStr(<<"a">>)}

\* The elements of a line_items list: items with a line total (numbers,
\* a non-number) and an element that is no mapping.
LineItemValues ==
    { PyDict(<< <<S_line_total, PyStr(S_50_00)>> >>),
      PyDict(<< <<S_line_total, PyStr(S_40_00)>> >>),
      PyDict(<< <<S_line_total, PyStr(S_49_995)>> >>),
      PyDict(<< <<S_line_total, PyStr(<<"a">>)>> >>),
      PyNone }

\* The elements of a medications list: complete, one sub-field missing or
\* empty, and an element that is no mapping.
MedicationValues ==
    { PyDict(<< <<S_drug_name, PyStr(<<"a">>)>>, <<S_dosage, PyStr(<<"1">>)>>,
                <<S_frequency, PyStr(<<"a">>)>> >>),
      PyDict(<< <<S_drug_name, PyStr(<<>>)>>, <<S_frequency, PyStr(<<"a">>)>> >>),
      PyNone }

ListValues(elems) ==
    {Absent, PyNone, PyStr(<<"a">>)}
    \cup {PyList(s) : s \in BoundedSeq(elems, MaxItems)}

InvoiceInputs ==
    { MakeDict(<< <<S_invoice_date, a>>, <<S_due_date, b>>,
                  <<S_total_amount, c>>, <<S_subtotal, e>>,
                  <<S_line_items, f>> >>) :
        a \in DateValues,
        b \in {Absent, PyNone, PyStr(<<>>), PyStr(S_date_ok), PyStr(S_date_bad)},
        c \in NumberValues, e \in {Absent, PyStr(<<"a">>)},
        f \in ListValues(LineItemValues) }

MedicalBillInputs ==
    { MakeDict(<< <<S_date_of_service_start, a>>, <<S_total_charges, b>>,
                  <<S_amount_due, c>>, <<S_insurance_paid, e>> >>) :
        a \in DateValues, b \in NumberValues,
        c \in {Absent, PyStr(S_50_00), PyStr(S_100_00)},
        e \in {Absent, PyNone, PyStr(S_50_00), PyStr(S_49_995),
                PyStr(<<"a">>)} }

PrescriptionInputs ==
    { MakeDict(<< <<S_prescription_date, a>>, <<S_medications, b>> >>) :
        a \in DateValues, b \in ListValues(MedicationValues) }

\* The (doc_type, extracted_data) arguments of the call.
ValidationInputs ==
    ({S_invoice} \X InvoiceInputs)
    \cup ({S_medical_bill} \X MedicalBillInputs)
    \cup ({S_prescription} \X PrescriptionInputs)
    \cup ({S_receipt, S_error}
          \X {EmptyMapping, LlmPrescription,
              PyDict(<< <<S_invoice_date, PyNone>>,
                        <<S_medications, PyList(<<PyNone>>)>> >>)})

IdleAgent ==
    /\ pc = "idle"
    /\ file = [exists |-> FALSE, ext |-> ".txt"]
    /\ raw_text = <<>>
    /\ word_boxes = <<>>
    /\ detected_doc_type = <<>>
    /\ extracted_raw_data = EmptyMapping
    /\ final_output = NoReport
    /\ exception = ""
    /\ calls = <<>>

InitValid ==
    /\ vpc = "start"
    /\ \E a \in ValidationInputs : v_doc_type = a[1] /\ v_data = a[2]
    /\ v_result = NoResult
    /\ v_exception = ""
    /\ IdleAgent
    /\ IdleScore

\* run_validation returns its result, or an exception of a validator
\* leaves it (nothing in run_validation catches one).
ReturnValidation(r) ==
    /\ IF r[1] # ""
       THEN /\ vpc' = "raised"
            /\ v_exception' = r[1]
            /\ UNCHANGED v_result
       ELSE /\ vpc' = "returned"
            /\ v_result' = r[2]
            /\ UNCHANGED v_exception
    /\ UNCHANGED <<v_doc_type, v_data, agent_vars, score_vars>>

\* run_validation, lines 198-201.
DispatchInvoice ==
    /\ vpc = "start"
    /\ v_doc_type = S_invoice
    /\ ReturnValidation(RunValidation(v_doc_type, v_data))

\* run_validation, lines 202-205.
DispatchMedicalBill ==
    /\ vpc = "start"
    /\ v_doc_type = S_medical_bill
    /\ ReturnValidation(RunValidation(v_doc_type, v_data))

\* run_validation, lines 206-209.
DispatchPrescription ==
    /\ vpc = "start"
    /\ v_doc_type = S_prescription
    /\ ReturnValidation(RunValidation(v_doc_type, v_data))

\* run_validation, lines 210-211: any other doc_type.
DispatchOther ==
    /\ vpc = "start"
    /\ v_doc_type \notin {S_invoice, S_medical_bill, S_prescription}
    /\ ReturnValidation(RunValidation(v_doc_type, v_data))

NextValid ==
    DispatchInvoice \/ DispatchMedicalBill \/ DispatchPrescription \/ DispatchOther

SpecValid == InitValid /\ [][NextValid]_vars

\* C3: run_validation never raises: for every doc_type and every mapping,
\* with fields absent, null or of the wrong type, it returns a
\* ValidationResult.
C3_ValidationNeverRaises == vpc # "raised" /\ v_exception = ""

----------------------------------------------------------------------------
(* Exact arithmetic for the scorer's floats: a rational is                 *)
(* <<numerator, denominator>> with a positive denominator.                 *)

RECURSIVE Gcd(_, _)
Gcd(a, b) == IF b = 0 THEN a ELSE Gcd(b, a % b)

\* The rational n/d in lowest terms.
Rat(n, d) ==
    LET g == Gcd(Abs(n), d) IN IF g = 0 THEN <<0, 1>> ELSE <<n \div g, d \div g>>

RAdd(p, q) == Rat(p[1] * q[2] + q[1] * p[2], p[2] * q[2])
RMul(p, q) == Rat(p[1] * q[1], p[2] * q[2])
RLeq(p, q) == p[1] * q[2] <= q[1] * p[2]
RMin(p, q) == IF RLeq(p, q) THEN p ELSE q

RZero == Rat(0, 1)
ROne == Rat(1, 1)

\* round(x, 2), as the set of hundredths it can give: the nearest
\* hundredth; a value half-way between two hundredths is not a binary
\* float, so the error of the arithmetic before decides and either
\* neighbour can come out.
Round2(q) ==
    LET n == 100 * q[1]
        fl == n \div q[2]
        rem == n - fl * q[2]
    IN IF 2 * rem < q[2] THEN {fl}
       ELSE IF 2 * rem > q[2] THEN {fl + 1}
       ELSE {fl, fl + 1}

----------------------------------------------------------------------------
(* utils/confidence_scorer.py: self-consistency.                           *)
(* A Python dict of the scorer (str -> value) is a sequence of             *)
(* <<key, value>> pairs with distinct keys, in insertion order.            *)

MapHas(m, k) == \E i \in 1..Len(m) : m[i][1] = k
MapGet(m, k, default) ==
    IF MapHas(m, k) THEN m[CHOOSE i \in 1..Len(m) : m[i][1] = k][2] ELSE default

RECURSIVE DictOfItems(_)
\* dict(items): a key keeps the place of its first pair and the value of
\* its last.
DictOfItems(items) ==
    IF items = <<>> THEN <<>>
    ELSE LET init == DictOfItems(SubSeq(items, 1, Len(items) - 1))
             last == items[Len(items)]
         IN IF MapHas(init, last[1])
            THEN [i \in 1..Len(init) |->
                    IF init[i][1] = last[1] THEN last ELSE init[i]]
            ELSE Append(init, last)

\* A faulty flattening: nested values are not descended into.
FlattenDict_Shallow(d, parent_key) ==
    [i \in 1..Len(d[2]) |-> <<d[2][i][1], Str(d[2][i][2])>>]

RECURSIVE FlattenDict(_, _)
\* flatten_dict(d, parent_key): a nested dict contributes its own
\* flattening under parent.key, a list of dicts the flattening of each
\* item under parent.key.<index>, anything else the pair (parent.key,
\* str(value)).
FlattenDict(d, parent_key) ==
    LET NewKey(k) == IF parent_key # <<>> THEN parent_key \o <<".">> \o k ELSE k
        OfPair(k, v) ==
            IF IsDict(v) THEN FlattenDict(v, NewKey(k))
            ELSE IF IsListOfDicts(v)
            THEN Concat([i \in 1..Len(v[2]) |->
                    FlattenDict(v[2][i], NewKey(k) \o <<".">> \o Digits(i - 1))])
            ELSE << <<NewKey(k), Str(v)>> >>
    IN DictOfItems(Concat([i \in 1..Len(d[2]) |-> OfPair(d[2][i][1], d[2][i][2])]))

\* The value looked up for a key a flattened run lacks.
Missing == <<"missing">>

\* A faulty count: a run counts only while every run before it agreed.
CalculateLlmConsistency_LeadingRuns(data, runs) ==
    IF runs = <<>> THEN <<>>
    ELSE LET num_runs == Len(runs)
             flattened_main_data == FlattenDict(data, <<>>)
             flattened_all_outputs == [r \in 1..Len(runs) |-> FlattenDict(runs[r], <<>>)]
             Agrees(r, field_name, primary_value) ==
                MapGet(flattened_all_outputs[r], field_name, Missing) = primary_value
             MatchCount(field_name, primary_value) ==
                Cardinality({r \in 1..num_runs :
                    \A q \in 1..r : Agrees(q, field_name, primary_value)})
         IN [i \in 1..Len(flattened_main_data) |->
                <<flattened_main_data[i][1],
                  Rat(MatchCount(flattened_main_data[i][1],
                                 flattened_main_data[i][2]), num_runs)>>]

\* _calculate_llm_consistency: per flattened path of the primary
\* extraction, the share of the runs whose flattened value at that path
\* equals the primary's; the empty map when there are no runs.
CalculateLlmConsistency(data, runs) ==
    IF runs = <<>> THEN <<>>
    ELSE LET num_runs == Len(runs)
             flattened_main_data == FlattenDict(data, <<>>)
             flattened_all_outputs == [r \in 1..Len(runs) |-> FlattenDict(runs[r], <<>>)]
             MatchCount(field_name, primary_value) ==
                Cardinality({r \in 1..num_runs :
                    MapGet(flattened_all_outputs[r], field_name, Missing)
                        = primary_value})
         IN [i \in 1..Len(flattened_main_data) |->
                <<flattened_main_data[i][1],
                  Rat(MatchCount(flattened_main_data[i][1],
                                 flattened_main_data[i][2]), num_runs)>>]

----------------------------------------------------------------------------
(* utils/confidence_scorer.py: composite field confidence.                 *)

S_date == <<"d", "a", "t", "e">>
S_amount_word == <<"a", "m", "o", "u", "n", "t">>
S_total == <<"t", "o", "t", "a", "l">>
S_charge == <<"c", "h", "a", "r", "g", "e">>
S_format_invalid ==
    <<"f", "o", "r", "m", "a", "t", "_", "i", "n", "v", "a", "l", "i", "d">>
S_numeric_invalid ==
    <<"n", "u", "m", "e", "r", "i", "c", "_", "i", "n", "v", "a", "l", "i",
      "d">>

\* The weights of the blend, in hundredths.
ConsistencyWeight == 70
ValidationWeight == 20
OcrWeight == 10

\* str(qa_results.get('failed_rules', []))
FailedRulesText(qa) ==
    Str(PyList([i \in 1..Len(qa.failed_rules) |-> PyStr(qa.failed_rules[i])]))

\* A faulty validation score: any failed rule demotes a field named like
\* a date or a money amount.
ValidationScore_AnyFailure(field_name, qa) ==
    IF /\ qa.failed_rules # <<>>
       /\ \/ IsSubstring(S_date, field_name)
          \/ IsSubstring(S_amount_word, field_name)
          \/ IsSubstring(S_total, field_name)
          \/ IsSubstring(S_charge, field_name)
    THEN Rat(1, 2) ELSE ROne

\* The validation score: 1.0, or 0.5 for a field named like a date when
\* some rule id holds "format_invalid", and for a field named like a
\* money amount when some rule id holds "numeric_invalid".
ValidationScore(field_name, qa) ==
    IF \/ /\ IsSubstring(S_date, field_name)
          /\ IsSubstring(S_format_invalid, FailedRulesText(qa))
       \/ /\ IsSubstring(S_numeric_invalid, FailedRulesText(qa))
          /\ \/ IsSubstring(S_amount_word, field_name)
             \/ IsSubstring(S_total, field_name)
             \/ IsSubstring(S_subtotal, field_name)
             \/ IsSubstring(S_charge, field_name)
    THEN Rat(1, 2) ELSE ROne

\* A faulty match: only a value found inside a token's word counts.
OcrMatches_OneDirection(value, box_info) ==
    IsSubstring(Lower(Strip(value)), Lower(Strip(box_info.word)))

\* Whether a token's word and a value match for OCR quality: one is a
\* substring of the other, both stripped and lower-cased.
OcrMatches(value, box_info) ==
    LET normalized_value == Lower(Strip(value))
        normalized_word_in_box == Lower(Strip(box_info.word))
    IN \/ IsSubstring(normalized_value, normalized_word_in_box)
       \/ IsSubstring(normalized_word_in_box, normalized_value)

\* A faulty token confidence: Tesseract's 0..100 is not scaled to [0,1].
TokenConfidence_Unscaled(box_info) ==
    IF box_info.has_conf THEN Rat(box_info.conf, 1) ELSE ROne

\* box_info.get('conf', 100) / 100.0
TokenConfidence(box_info) ==
    IF box_info.has_conf THEN Rat(box_info.conf, 100) ELSE ROne

RECURSIVE RSum(_)
RSum(qs) == IF qs = <<>> THEN RZero ELSE RAdd(Head(qs), RSum(Tail(qs)))

\* _get_ocr_confidence_for_value: 0.0 for an empty value or an empty
\* token index; otherwise the mean confidence of the matching tokens,
\* 0.0 when none matches.
GetOcrConfidenceForValue(value, boxes) ==
    IF value = <<>> \/ boxes = <<>> THEN RZero
    ELSE LET Match(b) == OcrMatches(value, b)
             matching == SelectSeq(boxes, Match)
             matching_word_confs == [i \in 1..Len(matching) |->
                                        TokenConfidence(matching[i])]
         IN IF matching_word_confs # <<>>
            THEN RMul(RSum(matching_word_confs), Rat(1, Len(matching_word_confs)))
            ELSE RZero

\* The blend 0.70 * consistency + 0.20 * validation + 0.10 * ocr.
Blend(consistency, validation, ocr) ==
    RAdd(RAdd(RMul(Rat(ConsistencyWeight, 100), consistency),
              RMul(Rat(ValidationWeight, 100), validation)),
         RMul(Rat(OcrWeight, 100), ocr))

\* _calculate_field_composite_confidence
CalculateFieldCompositeConfidence(field_name, field_value, llm_consistency_score, qa, boxes) ==
    Blend(llm_consistency_score,
          ValidationScore(field_name, qa),
          GetOcrConfidenceForValue(field_value, boxes))

----------------------------------------------------------------------------
(* utils/confidence_scorer.py: value grounding.                            *)

WordChars ==
    {"a", "b", "c", "d", "e", "f", "g", "h", "i", "j", "k", "l", "m", "n",
     "o", "p", "q", "r", "s", "t", "u", "v", "w", "x", "y", "z", "A", "I",
     "X", "N", "D", "_", "0", "1", "2", "3", "4", "5", "6", "7", "8", "9"}

RECURSIVE WordRuns(_, _)
\* re.findall(r'\b\w+\b', s): the maximal runs of word characters of s,
\* in order (cur is the run under way).
WordRuns(s, cur) ==
    IF s = <<>> THEN IF cur = <<>> THEN <<>> ELSE <<cur>>
    ELSE IF Head(s) \in WordChars THEN WordRuns(Tail(s), Append(cur, Head(s)))
    ELSE (IF cur = <<>> THEN <<>> ELSE <<cur>>) \o WordRuns(Tail(s), <<>>)

SeqMin(xs) == CHOOSE x \in {xs[i] : i \in 1..Len(xs)} :
                \A i \in 1..Len(xs) : x <= xs[i]
SeqMax(xs) == CHOOSE x \in {xs[i] : i \in 1..Len(xs)} :
                \A i \in 1..Len(xs) : x >= xs[i]

\* A faulty aggregation: the largest x0/y0 and the smallest x1/y1 of the
\* matching boxes.
FindBboxForValue_Intersection(value, boxes) ==
    IF value = <<>> \/ boxes = <<>> THEN NoSource
    ELSE LET normalized_value_tokens == WordRuns(Lower(value), <<>>)
             Match(b) == \E i \in 1..Len(normalized_value_tokens) :
                            normalized_value_tokens[i] = Lower(b.word)
             matching == SelectSeq(boxes, Match)
             B(c) == [i \in 1..Len(matching) |-> matching[i].bbox[c]]
         IN IF matching # <<>>
            THEN [present |-> TRUE,
                  page |-> matching[1].page_num,
                  bbox |-> <<SeqMax(B(1)), SeqMax(B(2)), SeqMin(B(3)), SeqMin(B(4))>>]
            ELSE NoSource

\* A faulty aggregation: the hull and the page are taken over every token
\* of the index as soon as one matches.
FindBboxForValue_AllTokens(value, boxes) ==
    IF value = <<>> \/ boxes = <<>> THEN NoSource
    ELSE LET normalized_value_tokens == WordRuns(Lower(value), <<>>)
             Match(b) == \E i \in 1..Len(normalized_value_tokens) :
                            normalized_value_tokens[i] = Lower(b.word)
             matching == SelectSeq(boxes, Match)
             B(c) == [i \in 1..Len(boxes) |-> boxes[i].bbox[c]]
         IN IF matching # <<>>
            THEN [present |-> TRUE,
                  page |-> boxes[1].page_num,
                  bbox |-> <<SeqMin(B(1)), SeqMin(B(2)), SeqMax(B(3)), SeqMax(B(4))>>]
            ELSE NoSource

\* A faulty aggregation: the box of the first matching token only.
FindBboxForValue_FirstMatchOnly(value, boxes) ==
    IF value = <<>> \/ boxes = <<>> THEN NoSource
    ELSE LET normalized_value_tokens == WordRuns(Lower(value), <<>>)
             Match(b) == \E i \in 1..Len(normalized_value_tokens) :
                            normalized_value_tokens[i] = Lower(b.word)
             matching == SelectSeq(boxes, Match)
         IN IF matching # <<>>
            THEN [present |-> TRUE,
                  page |-> matching[1].page_num,
                  bbox |-> matching[1].bbox]
            ELSE NoSource

\* _find_bbox_for_value: nothing for an empty value or token index;
\* otherwise the tokens whose lower-cased word is one of the value's
\* words, their boxes' hull and the first one's page; nothing when no
\* token matches.
FindBboxForValue(value, boxes) ==
    IF value = <<>> \/ boxes = <<>> THEN NoSource
    ELSE LET normalized_value_tokens == WordRuns(Lower(value), <<>>)
             Match(b) == \E i \in 1..Len(normalized_value_tokens) :
                            normalized_value_tokens[i] = Lower(b.word)
             matching == SelectSeq(boxes, Match)
             B(c) == [i \in 1..Len(matching) |-> matching[i].bbox[c]]
         IN IF matching # <<>>
            THEN [present |-> TRUE,
                  page |-> matching[1].page_num,
                  bbox |-> <<SeqMin(B(1)), SeqMin(B(2)), SeqMax(B(3)), SeqMax(B(4))>>]
            ELSE NoSource

----------------------------------------------------------------------------
(* utils/confidence_scorer.py: overall document confidence.                *)

RDiv(p, q) == Rat(p[1] * q[2], p[2] * q[1])

\* A faulty weight lookup: by the whole field name.
TopLevelKey_WholeName(field_name) == field_name

RECURSIVE TopLevelKey(_)
\* field_name.split('.')[0]
TopLevelKey(field_name) ==
    IF field_name = <<>> \/ Head(field_name) = "." THEN <<>>
    ELSE <<Head(field_name)>> \o TopLevelKey(Tail(field_name))

\* field_weights.get(key, 1.0)
FieldWeight(key) ==
    CASE key \in {S_total_amount, S_total_charges, S_medications} -> Rat(2, 1)
      [] key \in {S_invoice_number, S_vendor_name, S_patient_name,
                  S_amount_due, S_prescription_date, S_doctor_name} -> Rat(3, 2)
      [] OTHER -> ROne

\* sum(confidence * weight) / sum(weight) over the fields.
WeightedMean(fields) ==
    LET weights == [i \in 1..Len(fields) |->
                       FieldWeight(TopLevelKey(fields[i].name))]
        weighted_sum == RSum([i \in 1..Len(fields) |->
                       RMul(Rat(fields[i].confidence, 100), weights[i])])
        total_weight == RSum(weights)
    IN IF RLeq(total_weight, RZero) THEN RZero
       ELSE RDiv(weighted_sum, total_weight)

\* A faulty penalty: 10% per failed rule without the 50% cap.
Penalty_Uncapped(num_failed_rules) == Rat(num_failed_rules, 10)

\* min(0.1 * num_failed_rules, 0.5)
Penalty(num_failed_rules) == RMin(Rat(num_failed_rules, 10), Rat(1, 2))

\* A faulty aggregator: every field weighs the same.
CalculateOverallConfidence_Unweighted(fields, qa) ==
    IF fields = <<>> THEN {0}
    ELSE Round2(RMul(RSum([i \in 1..Len(fields) |->
                              Rat(fields[i].confidence, 100)]),
                     Rat(1, Len(fields))))

\* _calculate_overall_confidence, as the set of hundredths it can return:
\* 0.0 for no fields; otherwise the weighted mean, scaled by
\* (1 - penalty) when a rule failed, rounded to two places.
CalculateOverallConfidence(fields, qa) ==
    IF fields = <<>> THEN {0}
    ELSE LET overall_score == WeightedMean(fields)
             num_failed_rules == Len(qa.failed_rules)
         IN IF num_failed_rules > 0
            THEN Round2(RMul(overall_score,
                             RAdd(ROne, RMul(Rat(-1, 1), Penalty(num_failed_rules)))))
            ELSE Round2(overall_score)

----------------------------------------------------------------------------
(* utils/confidence_scorer.py: calculate_confidence_scores.                *)

\* A faulty lookup: a field the consistency map lacks counts as 1.0.
ConsumedConsistency_DefaultOne(scores, field_name) ==
    MapGet(scores, field_name, ROne)

\* llm_consistency_scores.get(field_name, 0.0)
ConsumedConsistency(scores, field_name) == MapGet(scores, field_name, RZero)

\* The arguments and the result of one call of the composite calculator.
CompositeCall(field_name, text, scores, qa, boxes) ==
    [name |-> field_name,
     value |-> text,
     consistency |-> ConsumedConsistency(scores, field_name),
     validation |-> ValidationScore(field_name, qa),
     ocr |-> GetOcrConfidenceForValue(text, boxes),
     composite |-> CalculateFieldCompositeConfidence(
                       field_name, text, ConsumedConsistency(scores, field_name),
                       qa, boxes)]

\* The fields one call of the composite calculator can be emitted as.
EmittedField(call, boxes) ==
    { [name |-> call.name,
       value |-> call.value,
       confidence |-> c,
       source |-> FindBboxForValue(call.value, boxes)]
      : c \in Round2(call.composite) }

RECURSIVE EmittedFields(_, _)
\* The field lists a sequence of calls can be emitted as.
EmittedFields(made, boxes) ==
    IF made = <<>> THEN {<<>>}
    ELSE { <<f>> \o rest : f \in EmittedField(Head(made), boxes),
                           rest \in EmittedFields(Tail(made), boxes) }

\* The (name, str(value)) pairs of one key of the extracted data: one per
\* sub-key of each item for a list of mappings, else the key itself.
EntriesOfKey(key, value) ==
    IF IsListOfDicts(value)
    THEN Concat([i \in 1..Len(value[2]) |->
            [j \in 1..Len(value[2][i][2]) |->
                <<key \o <<".">> \o Digits(i - 1) \o <<".">> \o value[2][i][2][j][1],
                  Str(value[2][i][2][j][2])>>]])
    ELSE << <<key, Str(value)>> >>

\* llm_consistency_scores = _calculate_llm_consistency(...)
ComputeConsistency ==
    /\ spc = "start"
    /\ llm_consistency_scores' =
           CalculateLlmConsistency(extracted_data, llm_raw_outputs)
    /\ spc' = "emit"
    /\ UNCHANGED <<extracted_data, qa_results, llm_raw_outputs, cursor,
                   formatted_fields, trace, overall_confidence>>
    /\ UNCHANGED <<agent_vars, valid_vars>>

\* The key and the value the emission loop is at.
CurrentKey == extracted_data[2][cursor][1]
CurrentValue == extracted_data[2][cursor][2]

\* One turn of the loop over extracted_data.items(): a call of the
\* composite calculator and an emitted field per entry of the key.
EmitEntries(entries) ==
    LET made == [i \in 1..Len(entries) |->
                    CompositeCall(entries[i][1], entries[i][2],
                                  llm_consistency_scores, qa_results,
                                  word_boxes)]
    IN /\ trace' = trace \o made
       /\ \E emitted \in EmittedFields(made, word_boxes) :
             formatted_fields' = formatted_fields \o emitted
       /\ cursor' = cursor + 1
       /\ UNCHANGED <<spc, extracted_data, qa_results, llm_raw_outputs,
                      llm_consistency_scores, overall_confidence>>
       /\ UNCHANGED <<agent_vars, valid_vars>>

\* The branch for a list of mappings: a field per item and sub-key.
EmitItemFields ==
    /\ spc = "emit"
    /\ cursor <= Len(extracted_data[2])
    /\ IsListOfDicts(CurrentValue)
    /\ EmitEntries(EntriesOfKey(CurrentKey, CurrentValue))

\* The branch for any other value: one field named by the key.
EmitField ==
    /\ spc = "emit"
    /\ cursor <= Len(extracted_data[2])
    /\ ~IsListOfDicts(CurrentValue)
    /\ EmitEntries(EntriesOfKey(CurrentKey, CurrentValue))

\* overall_confidence = _calculate_overall_confidence(...); return.
Aggregate ==
    /\ spc = "emit"
    /\ cursor > Len(extracted_data[2])
    /\ overall_confidence' \in
           CalculateOverallConfidence(formatted_fields, qa_results)
    /\ spc' = "done"
    /\ UNCHANGED <<extracted_data, qa_results, llm_raw_outputs,
                   llm_consistency_scores, cursor, formatted_fields, trace>>
    /\ UNCHANGED <<agent_vars, valid_vars>>

----------------------------------------------------------------------------
(* The specification of calculate_confidence_scores: one call over a       *)
(* primary extraction, a validation result, repeated runs and a token      *)
(* index.                                                                  *)

\* A token that carries Tesseract's confidence (0..100).
ConfToken(w, b, p, c) == [Token(w, b, p) EXCEPT !.has_conf = TRUE, !.conf = c]

\* The tokens of the token indexes: one with a confidence in range, two
\* as utils/tools.py makes them (no confidence), one of these a decimal
\* amount.
ScoreTokens ==
    {ConfToken(<<"a">>, <<0, 1, 1, 3>>, 1, 90),
     Token(<<"A", "b">>, <<2, 0, 3, 2>>, 2),
     Token(S_100_00, <<1, 1, 2, 2>>, 1)}
\* The token indexes: up to MaxTokens different tokens, in any order.
TokenIndexes ==
    {s \in BoundedSeq(ScoreTokens, MaxTokens) :
        \A i, j \in 1..Len(s) : s[i] = s[j] => i = j}

\* A line_items list of k items.
ItemList(k) ==
    PyList([i \in 1..k |-> PyDict(<< <<S_description, PyStr(<<"a">>)>> >>)])

\* A key that names both a date and an amount.
S_amount_due_date ==
    <<"a", "m", "o", "u", "n", "t", "_", "d", "u", "e", "_", "d", "a", "t", "e">>

\* Primary extractions: no key; scalar values (a string, the empty and a
\* blank string, None, a Decimal); a mapping as a value; a list of
\* scalars; a medications list of one mapping whose value holds two
\* words; lists of 0..MaxItems mappings.
ScoreInputs ==
    { PyDict(<<>>),
      PyDict(<< <<S_total_amount, PyStr(<<"a">>)>> >>),
      PyDict(<< <<S_total_amount, PyStr(<<"a">>)>>,
                <<S_invoice_date, PyStr(<<>>)>> >>),
      PyDict(<< <<S_invoice_date, PyStr(<<" ">>)>>, <<S_doc_type, PyNone>> >>),
      PyDict(<< <<S_total_amount, PyDec(S_100_00)>>,
                <<S_vendor_name, PyStr(<<"a", "b">>)>>,
                <<S_doc_type, PyStr(<<"a">>)>> >>),
      PyDict(<< <<S_vendor_name,
                  PyDict(<< <<S_description, PyStr(<<"a">>)>> >>)>> >>),
      PyDict(<< <<S_medications, PyList(<<PyStr(<<"a">>)>>)>> >>),
      PyDict(<< <<S_medications,
                  PyList(<<PyDict(<< <<S_dosage,
                                       PyStr(<<"a", " ", "a", "b">>)>> >>)>>)>>,
                <<S_amount_due_date, PyStr(<<"a">>)>> >>) }
    \cup { PyDict(<< <<S_line_items, ItemList(k)>>,
                     <<S_total_amount, PyStr(<<"a", "b">>)>> >>)
           : k \in 0..MaxItems }

\* A repeated run that differs from the primary: it agrees on some paths,
\* differs on others and lacks the rest.
OtherRun ==
    PyDict(<< <<S_total_amount, PyStr(<<"a">>)>>,
              <<S_vendor_name, PyStr(<<"a">>)>>,
              <<S_line_items, ItemList(1)>>,
              <<S_doc_type, PyStr(<<"a">>)>> >>)

\* The repeated runs handed in with a primary extraction.
RunsFor(data) == BoundedSeq({data, OtherRun}, MaxRuns)

\* The rule ids an invoice can fail, a number rule first.
FailedPool ==
    <<S_total_amount_numeric_invalid, S_line_items_sum_check_failed_parsing,
      S_invoice_date_format_invalid, S_due_date_format_invalid,
      S_subtotal_numeric_invalid, S_tax_amount_numeric_invalid>>

QaOf(failed) == [passed_rules |-> <<>>, failed_rules |-> failed, notes |-> ""]

\* Validation results: 0..Len(FailedPool) failed rules (nothing failed, a
\* number rule only, then a date rule as well), a date rule only, and
\* failures that are neither (a sum mismatch, no medication).
ScoreQa ==
    { QaOf(SubSeq(FailedPool, 1, n)) : n \in 0..Len(FailedPool) }
    \cup { QaOf(<<S_invoice_date_format_invalid>>),
           QaOf(<<S_line_items_sum_mismatch, S_no_medication_listed>>) }

InitScore ==
    /\ spc = "start"
    /\ extracted_data \in ScoreInputs
    /\ qa_results \in ScoreQa
    /\ llm_raw_outputs \in RunsFor(extracted_data)
    /\ word_boxes \in TokenIndexes
    /\ llm_consistency_scores = <<>>
    /\ cursor = 1
    /\ formatted_fields = <<>>
    /\ trace = <<>>
    /\ overall_confidence = NoScore
    /\ pc = "idle"
    /\ file = [exists |-> FALSE, ext |-> ".txt"]
    /\ raw_text = <<>>
    /\ detected_doc_type = <<>>
    /\ extracted_raw_data = EmptyMapping
    /\ final_output = NoReport
    /\ exception = ""
    /\ calls = <<>>
    /\ IdleValid

NextScore == ComputeConsistency \/ EmitItemFields \/ EmitField \/ Aggregate

SpecScore == InitScore /\ [][NextScore]_vars

----------------------------------------------------------------------------
(* Claims about the confidence scorer.                                     *)

\* The number of repeated runs.
NumRuns == Len(llm_raw_outputs)

\* Every token's confidence, where it has one, is in 0..100.
TokensInRange ==
    \A i \in 1..Len(word_boxes) :
        word_boxes[i].has_conf => word_boxes[i].conf \in 0..100

\* C4: every confidence calculate_confidence_scores produces lies in
\* [0,1]: for a token index whose OCR confidences are in range, each
\* emitted field's confidence and the overall document confidence are
\* between 0.0 and 1.0 (0 and 100 hundredths).
C4_ConfidencesInRange ==
    TokensInRange =>
        /\ \A i \in 1..Len(formatted_fields) :
               formatted_fields[i].confidence \in 0..100
        /\ spc = "done" => overall_confidence \in 0..100

\* A finished call over tokens with and without a confidence and over
\* repeated runs, with a field at 1.0, a field below it and a positive
\* overall confidence.
C4_Witness ==
    /\ spc = "done"
    /\ NumRuns >= 1
    /\ \E i \in 1..Len(word_boxes) : word_boxes[i].has_conf
    /\ \E i \in 1..Len(formatted_fields) : formatted_fields[i].confidence = 100
    /\ \E i \in 1..Len(formatted_fields) :
           formatted_fields[i].confidence \in 1..99
    /\ overall_confidence > 0

\* The call returned a non-empty field list and no rule had failed.
ReturnedUnpenalized ==
    /\ spc = "done"
    /\ formatted_fields # <<>>
    /\ qa_results.failed_rules = <<>>

\* C5 as stated: for a non-empty field list and no failed rule, the
\* overall confidence equals the weighted mean
\* sum(confidence*weight)/sum(weight) exactly.
C5_ExactWeightedMean ==
    ReturnedUnpenalized =>
        Rat(overall_confidence, 100) = WeightedMean(formatted_fields)

\* C5, amended: for a non-empty field list and no failed rule, the
\* overall confidence is the weighted mean rounded to two decimal places:
\* a hundredth no further than 0.005 from the weighted mean.
C5_RoundedWeightedMean ==
    ReturnedUnpenalized =>
        LET mean == WeightedMean(formatted_fields)
        IN Abs(200 * mean[1] - 2 * overall_confidence * mean[2]) <= mean[2]

\* No rule failed, fields of different weights were returned, and the
\* weighted mean is not a whole number of hundredths.
C5_Witness ==
    /\ ReturnedUnpenalized
    /\ \E i, j \in 1..Len(formatted_fields) :
           FieldWeight(TopLevelKey(formatted_fields[i].name))
               # FieldWeight(TopLevelKey(formatted_fields[j].name))
    /\ Rat(overall_confidence, 100) # WeightedMean(formatted_fields)

\* run_extraction returned a report that is not an error report.
SuccessfulReport == pc = "returned" /\ final_output.doc_type # S_error

\* C6: in every report of a successful run_extraction, overall_confidence
\* is what the overall aggregator yields for the report's own fields and
\* qa, and qa is the validation result of the extracted data.
C6_ReportFromAggregatorAndValidation ==
    SuccessfulReport =>
        /\ final_output.overall_confidence \in
               CalculateOverallConfidence(final_output.fields, final_output.qa)
        /\ final_output.qa =
               RunValidation(detected_doc_type, extracted_raw_data)[2]

\* The (name, str(value)) pairs a mapping's fields are emitted under.
EmittedEntries(data) ==
    Concat([k \in 1..Len(data[2]) |->
               EntriesOfKey(data[2][k][1], data[2][k][2])])

\* A run holds the field of a composite call with the same value.
PresentIdentically(call, run) ==
    \E i \in 1..Len(EmittedEntries(run)) :
        EmittedEntries(run)[i] = <<call.name, call.value>>

\* A run holds no field of that name.
AbsentFrom(call, run) ==
    \A i \in 1..Len(EmittedEntries(run)) :
        EmittedEntries(run)[i][1] # call.name

\* C7: for N >= 1 runs and every emitted field, the consistency score the
\* composite calculator consumes is 1.0 if all N runs hold the field with
\* the identical value, and 0.0 if no run holds the field.
C7_ConsistencyOfIdenticalAndAbsent ==
    NumRuns >= 1 =>
        \A i \in 1..Len(trace) :
            /\ (\A r \in 1..NumRuns :
                    PresentIdentically(trace[i], llm_raw_outputs[r]))
                   => trace[i].consistency = ROne
            /\ (\A r \in 1..NumRuns : AbsentFrom(trace[i], llm_raw_outputs[r]))
                   => trace[i].consistency = RZero

\* C8: with zero repeated runs the consistency map is empty, every
\* composite call consumes a consistency of 0.0, its result is
\* 0.20 * validation_score + 0.10 * ocr_quality_score, and neither it nor
\* the emitted confidence exceeds 0.30.
C8_NoRunsNoConsistency ==
    NumRuns = 0 =>
        /\ llm_consistency_scores = <<>>
        /\ \A i \in 1..Len(trace) :
              /\ trace[i].consistency = RZero
              /\ trace[i].composite =
                     RAdd(RMul(Rat(20, 100), trace[i].validation),
                          RMul(Rat(10, 100), trace[i].ocr))
              /\ RLeq(trace[i].composite, Rat(30, 100))
        /\ \A i \in 1..Len(formatted_fields) :
              formatted_fields[i].confidence <= 30

\* A finished call without repeated runs in which one field reached the
\* 0.30 ceiling and another stayed below it.
C8_Witness ==
    /\ NumRuns = 0
    /\ spc = "done"
    /\ \E i \in 1..Len(trace) : trace[i].composite = Rat(30, 100)
    /\ \E i \in 1..Len(trace) : trace[i].composite # Rat(30, 100)

\* A path extended by a key or an index.
JoinPath(path, k) == IF path = <<>> THEN k ELSE path \o <<".">> \o k

RECURSIVE LeafPairs(_, _)
\* The (dotted path, str(value)) pairs of the leaves below a value: a
\* mapping's values under their keys, the items of a list of mappings
\* under their positions, any other value a leaf.
LeafPairs(v, path) ==
    IF IsDict(v)
    THEN UNION { LeafPairs(v[2][i][2], JoinPath(path, v[2][i][1]))
                 : i \in 1..Len(v[2]) }
    ELSE IF IsListOfDicts(v)
    THEN UNION { LeafPairs(v[2][i], JoinPath(path, Digits(i - 1)))
                 : i \in 1..Len(v[2]) }
    ELSE { <<path, Str(v)>> }

\* C9: for N >= 1 runs the consistency map has exactly one key per
\* flattened leaf path of the primary extraction, and the score at a path
\* is (number of runs with the same stringified value at that path) / N,
\* a number in [0,1].
C9_ConsistencyMap ==
    (NumRuns >= 1 /\ spc # "start") =>
        LET primary == LeafPairs(extracted_data, <<>>)
            scores == llm_consistency_scores
            Agreeing(pair) ==
                {r \in 1..NumRuns : pair \in LeafPairs(llm_raw_outputs[r], <<>>)}
        IN /\ {scores[i][1] : i \in 1..Len(scores)} = {p[1] : p \in primary}
           /\ Len(scores) = Cardinality(primary)
           /\ \A i \in 1..Len(scores) :
                 /\ \E p \in primary :
                       /\ p[1] = scores[i][1]
                       /\ scores[i][2] = Rat(Cardinality(Agreeing(p)), NumRuns)
                 /\ RLeq(RZero, scores[i][2])
                 /\ RLeq(scores[i][2], ROne)

\* A consistency map over two or more runs with a path of a list item, a
\* path of a nested mapping or a plain key, and a score strictly between
\* 0 and 1.
C9_Witness ==
    /\ NumRuns >= 2
    /\ spc = "done"
    /\ \E i \in 1..Len(llm_consistency_scores) :
          IsSubstring(<<".", "0", ".">>, llm_consistency_scores[i][1])
    /\ \E i \in 1..Len(llm_consistency_scores) :
          llm_consistency_scores[i][2] = Rat(1, 2)

\* The tokens whose normalized word is a substring of the normalized
\* value or holds it.
MatchingTokens(value, boxes) ==
    {i \in 1..Len(boxes) :
        \/ IsSubstring(Lower(Strip(value)), Lower(Strip(boxes[i].word)))
        \/ IsSubstring(Lower(Strip(boxes[i].word)), Lower(Strip(value)))}

RECURSIVE ConfidenceSum(_, _)
\* The sum of the confidences, scaled to [0,1], of the tokens at a set of
\* positions (1.0 for a token without one).
ConfidenceSum(positions, boxes) ==
    IF positions = {} THEN RZero
    ELSE LET i == CHOOSE j \in positions : TRUE
         IN RAdd(IF boxes[i].has_conf THEN Rat(boxes[i].conf, 100) ELSE ROne,
                 ConfidenceSum(positions \ {i}, boxes))

\* The OCR quality score as stated: the mean confidence of the matching
\* tokens, 0.0 when no token matches.
OcrQualityAsStated(value, boxes) ==
    LET matching == MatchingTokens(value, boxes)
    IN IF matching = {} THEN RZero
       ELSE RDiv(ConfidenceSum(matching, boxes), Rat(Cardinality(matching), 1))

\* 0.70 * consistency + 0.20 * validation + 0.10 * ocr
BlendAsStated(consistency, validation, ocr) ==
    RAdd(RMul(Rat(7, 10), consistency),
         RAdd(RMul(Rat(2, 10), validation), RMul(Rat(1, 10), ocr)))

\* The example of the claim: total_amount, consistency 1.0, no failed
\* rule, and one token, of confidence 0.9, whose word is the value.
ScenarioD(call) ==
    /\ call.name = S_total_amount
    /\ call.consistency = ROne
    /\ qa_results.failed_rules = <<>>
    /\ Len(word_boxes) = 1
    /\ word_boxes[1].word = call.value
    /\ word_boxes[1].has_conf /\ word_boxes[1].conf = 90

\* C10 as stated: every composite confidence is the blend with the OCR
\* quality the mean confidence of the tokens matching the value by
\* substring in either direction, 0.0 when none matches.
C10_BlendAsStated ==
    \A i \in 1..Len(trace) :
        trace[i].composite =
            BlendAsStated(trace[i].consistency, trace[i].validation,
                          OcrQualityAsStated(trace[i].value, word_boxes))

\* C10, amended: every composite confidence is the blend
\* 0.70 * consistency + 0.20 * validation + 0.10 * ocr quality, where the
\* OCR quality is 0.0 for an empty field value and otherwise the mean
\* confidence of the tokens matching the value by substring in either
\* direction, 0.0 when none matches; the example yields 0.99.
C10_BlendWithEmptyValue ==
    \A i \in 1..Len(trace) :
        /\ trace[i].composite =
               BlendAsStated(trace[i].consistency, trace[i].validation,
                   IF trace[i].value = <<>> THEN RZero
                   ELSE OcrQualityAsStated(trace[i].value, word_boxes))
        /\ ScenarioD(trace[i]) => trace[i].composite = Rat(99, 100)

\* The example happened, and in the same call a field with an empty value
\* was scored against the same token.
C10_Witness ==
    /\ \E i \in 1..Len(trace) : ScenarioD(trace[i])
    /\ \E i \in 1..Len(trace) : trace[i].value = <<>>

\* The rule ids of the date-format failures and of the numeric-format
\* failures run_validation can record.
DateFormatFailures ==
    {S_invoice_date_format_invalid, S_due_date_format_invalid,
     S_service_start_date_format_invalid, S_prescription_date_format_invalid}
NumericFormatFailures ==
    {S_total_amount_numeric_invalid, S_subtotal_numeric_invalid,
     S_tax_amount_numeric_invalid, S_total_charges_numeric_invalid,
     S_amount_due_numeric_invalid}

FailedSet == {qa_results.failed_rules[j] : j \in 1..Len(qa_results.failed_rules)}

\* The two triggers of the claim, for a field name.
DateTrigger(name) ==
    IsSubstring(S_date, name) /\ FailedSet \cap DateFormatFailures # {}
NumberTrigger(name) ==
    /\ \E w \in {S_amount_word, S_total, S_subtotal, S_charge} :
           IsSubstring(w, name)
    /\ FailedSet \cap NumericFormatFailures # {}

\* C11: the validation score of every scored field is 0.5 or 1.0, and it
\* is 0.5 exactly when the field name holds "date" and a date-format rule
\* failed, or the name holds "amount", "total", "subtotal" or "charge" and
\* a numeric-format rule failed; failures of another kind never demote.
C11_ValidationScore ==
    \A i \in 1..Len(trace) :
        /\ trace[i].validation \in {Rat(1, 2), ROne}
        /\ trace[i].validation = Rat(1, 2)
               <=> (DateTrigger(trace[i].name) \/ NumberTrigger(trace[i].name))

\* Both triggers fired for one field, scored 0.5, and another field of
\* the same call, named like neither, kept 1.0 among the failures.
C11_Witness ==
    /\ \E i \in 1..Len(trace) :
           /\ DateTrigger(trace[i].name) /\ NumberTrigger(trace[i].name)
           /\ trace[i].validation = Rat(1, 2)
    /\ \E i \in 1..Len(trace) : trace[i].validation = ROne

\* A field named like a money amount kept 1.0 although rules failed, none
\* of them a format rule.
C11_WitnessOtherFailures ==
    \E i \in 1..Len(trace) :
        /\ IsSubstring(S_amount_word, trace[i].name)
        /\ qa_results.failed_rules # <<>>
        /\ FailedSet \cap (DateFormatFailures \cup NumericFormatFailures) = {}
        /\ trace[i].validation = ROne

\* The part of a field name before its first dot.
BeforeFirstDot(name) ==
    LET dots == {k \in 1..Len(name) : name[k] = "."}
    IN IF dots = {} THEN name
       ELSE SubSeq(name, 1, (CHOOSE k \in dots : \A m \in dots : k <= m) - 1)

\* The weight of a field as stated: 2.0 and 1.5 for the key fields, by
\* the part of the name before the first dot, and 1.0 for the others.
StatedWeight(name) ==
    LET key == BeforeFirstDot(name)
    IN IF key \in {S_total_amount, S_total_charges, S_medications}
       THEN Rat(2, 1)
       ELSE IF key \in {S_invoice_number, S_vendor_name, S_patient_name,
                        S_amount_due, S_prescription_date, S_doctor_name}
            THEN Rat(3, 2)
            ELSE ROne

\* sum(confidence * weight) / sum(weight) with the stated weights.
StatedMean(fields) ==
    RDiv(RSum([i \in 1..Len(fields) |->
                  RMul(Rat(fields[i].confidence, 100),
                       StatedWeight(fields[i].name))]),
         RSum([i \in 1..Len(fields) |-> StatedWeight(fields[i].name)]))

\* C12: for a non-empty field list the aggregator's unpenalized score is
\* sum(confidence*weight)/sum(weight) with each weight looked up by the
\* part of the field name before the first dot (2.0 or 1.5 for key
\* fields, 1.0 otherwise), the returned value being that score times
\* (1 - penalty), rounded to two places; for an empty field list the
\* result is 0.0 whatever the validation result.
C12_WeightedByTopLevelKey ==
    spc = "done" =>
        IF formatted_fields = <<>> THEN overall_confidence = 0
        ELSE LET mean == StatedMean(formatted_fields)
                 n == Len(qa_results.failed_rules)
                 kept == IF n < 5 THEN Rat(10 - n, 10) ELSE Rat(1, 2)
                 score == RMul(mean, kept)
             IN /\ WeightedMean(formatted_fields) = mean
                /\ Abs(200 * score[1] - 2 * overall_confidence * score[2])
                       <= score[2]

\* An indexed sub-item of medications (weight 2.0) was aggregated with a
\* field of weight 1.0 and a different confidence.
C12_Witness ==
    /\ spc = "done"
    /\ \E i, j \in 1..Len(formatted_fields) :
           /\ IsSubstring(<<".">>, formatted_fields[i].name)
           /\ StatedWeight(formatted_fields[i].name) = Rat(2, 1)
           /\ StatedWeight(formatted_fields[j].name) = ROne
           /\ formatted_fields[i].confidence # formatted_fields[j].confidence

\* No field was emitted while rules had failed, and 0.0 was returned.
C12_WitnessEmpty ==
    /\ spc = "done"
    /\ formatted_fields = <<>>
    /\ qa_results.failed_rules # <<>>
    /\ overall_confidence = 0

\* The scores the aggregator can return for the returned fields had the
\* first k of the failed rules failed.
ScoresWithFailures(k) ==
    CalculateOverallConfidence(formatted_fields,
        QaOf(SubSeq(qa_results.failed_rules, 1, k)))

\* Every score of xs has a score of ys at or above it, and every score
\* of ys has a score of xs at or below it.
NotAbove(xs, ys) ==
    /\ \A x \in xs : \E y \in ys : x <= y
    /\ \A y \in ys : \E x \in xs : x <= y

\* C13: with n failed rules the returned score is the weighted mean times
\* 1 - min(0.1 * n, 0.5), to two decimals; it is never less than half the
\* weighted mean (up to the rounding); n >= 5 yields the score of n = 5;
\* and for the same fields one failure more never yields a higher score.
C13_PenaltyCappedAndMonotone ==
    (spc = "done" /\ formatted_fields # <<>>) =>
        LET mean == StatedMean(formatted_fields)
            n == Len(qa_results.failed_rules)
            tenths == IF n < 5 THEN n ELSE 5
            score == RMul(mean, Rat(10 - tenths, 10))
        IN /\ Abs(200 * score[1] - 2 * overall_confidence * score[2])
                  <= score[2]
           /\ 2 * overall_confidence * mean[2] + mean[2] >= 100 * mean[1]
           /\ n >= 5 => /\ ScoresWithFailures(n) = ScoresWithFailures(5)
                        /\ overall_confidence \in ScoresWithFailures(5)
           /\ \A k \in 1..n :
                  NotAbove(ScoresWithFailures(k), ScoresWithFailures(k - 1))

\* Six rules failed, the score is the one of five failures, positive, and
\* below the score of the same fields with four failures.
C13_Witness ==
    /\ spc = "done"
    /\ Len(qa_results.failed_rules) = 6
    /\ overall_confidence > 0
    /\ overall_confidence \in ScoresWithFailures(5)
    /\ \A y \in ScoresWithFailures(4) : overall_confidence < y

\* The rule ids a finished call of run_validation emitted (none when an
\* exception left it).
PassedIds ==
    IF vpc = "returned"
    THEN {v_result.passed_rules[i] : i \in 1..Len(v_result.passed_rules)}
    ELSE {}
FailedIds ==
    IF vpc = "returned"
    THEN {v_result.failed_rules[i] : i \in 1..Len(v_result.failed_rules)}
    ELSE {}

\* A value is a date of the exact form YYYY-MM-DD: a string of four
\* digits, a dash, two digits, a dash and two digits naming a day.
ExactDate(v) ==
    /\ IsStr(v)
    /\ Len(v[2]) = 10
    /\ \A i \in {1, 2, 3, 4, 6, 7, 9, 10} : IsDigit(v[2][i])
    /\ v[2][5] = "-" /\ v[2][8] = "-"
    /\ LET y == ParseNat(SubSeq(v[2], 1, 4))
           m == ParseNat(SubSeq(v[2], 6, 7))
           day == ParseNat(SubSeq(v[2], 9, 10))
       IN y >= 1 /\ m \in 1..12 /\ day \in 1..DaysInMonth(y, m)

\* The required date field of each document type with its two rule ids.
RequiredDates ==
    { <<S_invoice, S_invoice_date, S_invoice_date_format_valid,
        S_invoice_date_format_invalid>>,
      <<S_medical_bill, S_date_of_service_start,
        S_service_start_date_format_valid,
        S_service_start_date_format_invalid>>,
      <<S_prescription, S_prescription_date, S_prescription_date_format_valid,
        S_prescription_date_format_invalid>> }

\* What strptime("%Y-%m-%d") accepts of a string.
StrptimeAccepts(v) == IsStr(v) /\ ParsesAsDate(v[2])

\* Whether a value counts as a date: of the exact form, or as strptime
\* reads the pattern.
Accepts(exact, v) == IF exact THEN ExactDate(v) ELSE StrptimeAccepts(v)

\* For the required date of the finished call, exactly one of its two ids
\* was emitted, the valid one only for a value that counts as a date.
RequiredDateRuleHolds(exact) ==
    \A t \in RequiredDates :
        v_doc_type = t[1] =>
            /\ (t[3] \in PassedIds) # (t[4] \in FailedIds)
            /\ t[3] \notin FailedIds /\ t[4] \notin PassedIds
            /\ t[3] \in PassedIds =>
                   HasKey(v_data, t[2]) /\ Accepts(exact, DictGet(v_data, t[2]))

\* For the due_date of a finished invoice call: no failure when absent or
\* None, due_date_format_invalid when present and not accepted.
DueDateRuleHolds(exact) ==
    v_doc_type = S_invoice =>
        IF ~HasKey(v_data, S_due_date) \/ IsNone(DictGet(v_data, S_due_date))
        THEN S_due_date_format_invalid \notin FailedIds
        ELSE ~Accepts(exact, DictGet(v_data, S_due_date))
                 => S_due_date_format_invalid \in FailedIds

\* C14: for the required date field of the call exactly one of
\* <rule>_format_valid (passed) and <rule>_format_invalid (failed) is
\* emitted, the valid one only if the value is of the exact form
\* YYYY-MM-DD (so "2024-13-45" gives invoice_date_format_invalid); the
\* optional due_date emits no failure when absent or null and
\* due_date_format_invalid when present but no such date.
C14_DateRules ==
    vpc \in {"returned", "raised"} =>
        /\ RequiredDateRuleHolds(TRUE)
        /\ DueDateRuleHolds(TRUE)

\* The date rules of the calls that return, with strptime's reading of
\* the pattern (a month and a day of one or two digits).
DateRulesOfReturnedCalls ==
    vpc = "returned" =>
        /\ RequiredDateRuleHolds(FALSE)
        /\ DueDateRuleHolds(FALSE)

\* An invoice dated "2024-1-5" was given invoice_date_format_valid.
ShortDatePassed ==
    /\ vpc = "returned"
    /\ v_doc_type = S_invoice
    /\ HasKey(v_data, S_invoice_date)
    /\ DictGet(v_data, S_invoice_date) = PyStr(S_date_short)
    /\ S_invoice_date_format_valid \in PassedIds

\* The finished call validated an invoice whose total_amount is a number
\* and whose line_items is a list of mappings, each with a line_total
\* that is a number.
SumCheckable ==
    /\ v_doc_type = S_invoice
    /\ HasKey(v_data, S_total_amount)
    /\ IsValidDecimal(DictGet(v_data, S_total_amount))
    /\ HasKey(v_data, S_line_items)
    /\ IsListOfDicts(DictGet(v_data, S_line_items))
    /\ \A i \in 1..Len(DictGet(v_data, S_line_items)[2]) :
           LET item == DictGet(v_data, S_line_items)[2][i]
           IN HasKey(item, S_line_total)
              /\ IsValidDecimal(DictGet(item, S_line_total))

\* total_amount minus the sum of all line totals, in thousandths.
SumDifference ==
    LET items == DictGet(v_data, S_line_items)[2]
    IN FloatMilli(DictGet(v_data, S_total_amount))
       - SumSeq([i \in 1..Len(items) |->
                    FloatMilli(DictGet(items[i], S_line_total))])

\* The finished call validated a medical bill whose total_charges,
\* amount_due and insurance_paid are numbers.
BalanceCheckable ==
    /\ v_doc_type = S_medical_bill
    /\ \A k \in {S_total_charges, S_amount_due, S_insurance_paid} :
           HasKey(v_data, k) /\ IsValidDecimal(DictGet(v_data, k))

\* total_charges minus (insurance_paid + amount_due), in thousandths.
BalanceDifference ==
    FloatMilli(DictGet(v_data, S_total_charges))
    - (FloatMilli(DictGet(v_data, S_insurance_paid))
       + FloatMilli(DictGet(v_data, S_amount_due)))

\* Exactly one of a passed id and a failed id was emitted: the passed one
\* for a difference below 0.01, the failed one for a difference above.
WithinTolerance(difference, passed_id, failed_id) ==
    /\ (passed_id \in PassedIds) # (failed_id \in FailedIds)
    /\ passed_id \notin FailedIds /\ failed_id \notin PassedIds
    /\ Abs(difference) < 10 => passed_id \in PassedIds
    /\ Abs(difference) > 10 => failed_id \in FailedIds

\* C15: for an invoice whose total_amount and line_items are present and
\* parseable, exactly one of line_items_sum_matches_total (passed, the sum
\* of the line totals within 0.01 of total_amount) and
\* line_items_sum_mismatch (failed, otherwise) is emitted: 100.00 against
\* 50.00 + 50.00 passes, 100.00 against one item of 40.00 fails.  The
\* medical-bill rule total_charges = insurance_paid + amount_due uses the
\* same tolerance.  (Stated of the calls that return.)
C15_SumAndBalanceRules ==
    vpc = "returned" =>
        /\ SumCheckable =>
               WithinTolerance(SumDifference, S_line_items_sum_matches_total,
                               S_line_items_sum_mismatch)
        /\ BalanceCheckable =>
               WithinTolerance(BalanceDifference, S_charges_balance_check_valid,
                               S_charges_balance_check_mismatch)

\* The line totals of the validated invoice, as texts.
LineTotals ==
    LET items == DictGet(v_data, S_line_items)[2]
    IN [i \in 1..Len(items) |-> DictGet(items[i], S_line_total)[2]]

\* The first example happened: total 100.00 with items 50.00 and 50.00
\* was given line_items_sum_matches_total.
C15_Witness ==
    /\ vpc = "returned"
    /\ SumCheckable
    /\ DictGet(v_data, S_total_amount) = PyStr(S_100_00)
    /\ LineTotals = <<S_50_00, S_50_00>>
    /\ S_line_items_sum_matches_total \in PassedIds

\* The second example happened: total 100.00 with one item 40.00 was
\* given line_items_sum_mismatch.
C15_WitnessMismatch ==
    /\ vpc = "returned"
    /\ SumCheckable
    /\ DictGet(v_data, S_total_amount) = PyStr(S_100_00)
    /\ LineTotals = <<S_40_00>>
    /\ S_line_items_sum_mismatch \in FailedIds

\* A medical bill balanced within the tolerance (100.00 against
\* 49.995 + 50.00) and was given charges_balance_check_valid.
C15_WitnessBalance ==
    /\ vpc = "returned"
    /\ BalanceCheckable
    /\ BalanceDifference = 5
    /\ S_charges_balance_check_valid \in PassedIds

\* An invoice summed within the tolerance without being equal (100.00
\* against 50.00 + 49.995) and was given line_items_sum_matches_total.
C15_WitnessTolerance ==
    /\ vpc = "returned"
    /\ SumCheckable
    /\ SumDifference = 5
    /\ S_line_items_sum_matches_total \in PassedIds

\* The balance check of the validated medical bill has its inputs:
\* total_charges and amount_due are numbers and insurance_paid is present
\* and None (counted as 0) or a number.
BalanceEvaluable ==
    /\ \A k \in {S_total_charges, S_amount_due} :
           HasKey(v_data, k) /\ IsValidDecimal(DictGet(v_data, k))
    /\ HasKey(v_data, S_insurance_paid)
    /\ \/ IsNone(DictGet(v_data, S_insurance_paid))
       \/ IsValidDecimal(DictGet(v_data, S_insurance_paid))

\* C16: whenever the invoice line-item sum or the medical-bill charges
\* balance cannot be evaluated because an input is missing or unparseable
\* (an individual unparseable line_total included), failed_rules holds a
\* skipped / failed-for-parsing id of that check, and the check neither
\* passes nor disappears from the result.
C16_UnevaluableCheckIsRecorded ==
    vpc = "returned" =>
        /\ (v_doc_type = S_invoice /\ ~SumCheckable) =>
               /\ FailedIds \cap {S_line_items_or_total_missing_for_sum_check,
                                  S_line_items_sum_check_failed_parsing} # {}
               /\ S_line_items_sum_matches_total \notin PassedIds
        /\ (v_doc_type = S_medical_bill /\ ~BalanceEvaluable) =>
               /\ S_charges_balance_check_failed_parsing \in FailedIds
               /\ S_charges_balance_check_valid \notin PassedIds

\* An invoice with a line_total that is no number was given
\* line_items_sum_matches_total.
UnparseableLineTotalPassed ==
    /\ vpc = "returned"
    /\ v_doc_type = S_invoice
    /\ ~SumCheckable
    /\ S_line_items_sum_matches_total \in PassedIds

\* A medical bill without insurance_paid was returned with no id of the
\* balance check.
BalanceCheckDisappeared ==
    /\ vpc = "returned"
    /\ v_doc_type = S_medical_bill
    /\ ~HasKey(v_data, S_insurance_paid)
    /\ (PassedIds \cup FailedIds)
           \cap {S_charges_balance_check_valid, S_charges_balance_check_mismatch,
                 S_charges_balance_check_failed_parsing} = {}

\* The emitted rule ids of the form medication_<i>_*.
MedicationIds ==
    {id \in PassedIds \cup FailedIds :
        /\ Len(id) > Len(S_medication_)
        /\ SubSeq(id, 1, Len(S_medication_)) = S_medication_}

\* The <<present, missing>> suffixes of the three sub-fields.
MedicationSuffixes ==
    { <<S_sfx_drug_name_present, S_sfx_drug_name_missing>>,
      <<S_sfx_dosage_present, S_sfx_dosage_missing>>,
      <<S_sfx_frequency_present, S_sfx_frequency_missing>> }

\* medication_<i><suffix>
MedicationId(i, suffix) == S_medication_ \o Digits(i) \o suffix

\* C17: when medications is absent or empty, no_medication_listed is
\* failed and no medication_<i>_* id is emitted; when it is a list of
\* n >= 1 medication mappings, at_least_one_medication_listed is passed,
\* for every index i < n and each of drug_name, dosage and frequency
\* exactly one of medication_<i>_<field>_present (passed) and
\* medication_<i>_<field>_missing (failed) is emitted, and no id is
\* emitted for an index >= n.
C17_MedicationRules ==
    (vpc = "returned" /\ v_doc_type = S_prescription) =>
        /\ (~HasKey(v_data, S_medications)
               \/ DictGet(v_data, S_medications) = PyList(<<>>)) =>
               /\ S_no_medication_listed \in FailedIds
               /\ S_at_least_one_medication_listed \notin PassedIds
               /\ MedicationIds = {}
        /\ (/\ HasKey(v_data, S_medications)
            /\ IsListOfDicts(DictGet(v_data, S_medications))
            /\ DictGet(v_data, S_medications)[2] # <<>>) =>
               LET n == Len(DictGet(v_data, S_medications)[2])
               IN /\ S_at_least_one_medication_listed \in PassedIds
                  /\ S_no_medication_listed \notin FailedIds
                  /\ \A i \in 0..(n - 1) : \A sfx \in MedicationSuffixes :
                         /\ (MedicationId(i, sfx[1]) \in PassedIds)
                                # (MedicationId(i, sfx[2]) \in FailedIds)
                         /\ MedicationId(i, sfx[1]) \notin FailedIds
                         /\ MedicationId(i, sfx[2]) \notin PassedIds
                  /\ MedicationIds \subseteq
                         {MedicationId(i, sfx[k]) :
                             i \in 0..(n - 1), sfx \in MedicationSuffixes,
                             k \in {1, 2}}

\* A prescription of two medications was validated: ids of index 0 and 1
\* were emitted, a present one and a missing one among them.
C17_Witness ==
    /\ vpc = "returned"
    /\ v_doc_type = S_prescription
    /\ HasKey(v_data, S_medications)
    /\ IsListOfDicts(DictGet(v_data, S_medications))
    /\ Len(DictGet(v_data, S_medications)[2]) = 2
    /\ MedicationId(1, S_sfx_dosage_missing) \in FailedIds
    /\ MedicationId(0, S_sfx_dosage_present) \in PassedIds

\* A prescription with an empty medications list was given
\* no_medication_listed.
C17_WitnessNone ==
    /\ vpc = "returned"
    /\ v_doc_type = S_prescription
    /\ HasKey(v_data, S_medications)
    /\ DictGet(v_data, S_medications) = PyList(<<>>)
    /\ S_no_medication_listed \in FailedIds

\* C18: for a doc_type other than invoice, medical_bill and prescription
\* run_validation returns (whatever extracted_data holds) no passed rule
\* and the single failed rule no_validation_rules_for_type_<doc_type>;
\* and for every doc_type the notes report the number of failed rules:
\* "<n> validation rule(s) failed." for n = len(failed_rules) > 0, and
\* that all rules passed when none failed.
C18_UnknownTypeAndNotes ==
    /\ (vpc # "start"
           /\ v_doc_type \notin {S_invoice, S_medical_bill, S_prescription}) =>
           /\ vpc = "returned"
           /\ v_result.passed_rules = <<>>
           /\ v_result.failed_rules
                  = <<S_no_validation_rules_for_type_ \o v_doc_type>>
           /\ v_result.notes = "1 validation rule(s) failed."
    /\ vpc = "returned" =>
           LET n == Len(v_result.failed_rules)
           IN v_result.notes =
                  IF n > 0 THEN ToString(n) \o " validation rule(s) failed."
                  ELSE "All primary validation rules passed."

\* A call for the doc_type "receipt" returned, its extracted_data one
\* that makes the validators of the known types raise.
C18_Witness ==
    /\ vpc = "returned"
    /\ v_doc_type = S_receipt
    /\ HasKey(v_data, S_invoice_date)
    /\ v_result.failed_rules = <<S_no_validation_rules_for_type_ \o S_receipt>>

\* A call of a known doc_type returned several failed rules, counted by
\* the notes.
C18_WitnessCount ==
    /\ vpc = "returned"
    /\ v_doc_type = S_invoice
    /\ Len(v_result.failed_rules) = 3
    /\ v_result.notes = "3 validation rule(s) failed."

\* The positions of the tokens the grounding matcher matches to a value:
\* those whose lower-cased word is one of the value's lower-cased words.
MatchedTokens(value) ==
    LET words == WordRuns(Lower(value), <<>>)
    IN {k \in 1..Len(word_boxes) :
           \E w \in 1..Len(words) : words[w] = Lower(word_boxes[k].word)}

\* C19: whenever the grounding matcher returns a bounding box, the token
\* boxes each satisfying x0 <= x1 and y0 <= y1, the returned box
\* satisfies x0 <= x1 and y0 <= y1.
C19_BoxWellFormed ==
    (\A k \in 1..Len(word_boxes) :
        /\ word_boxes[k].bbox[1] <= word_boxes[k].bbox[3]
        /\ word_boxes[k].bbox[2] <= word_boxes[k].bbox[4]) =>
    \A i \in 1..Len(formatted_fields) :
        formatted_fields[i].source.present =>
            /\ formatted_fields[i].source.bbox[1]
                   <= formatted_fields[i].source.bbox[3]
            /\ formatted_fields[i].source.bbox[2]
                   <= formatted_fields[i].source.bbox[4]

\* A box was returned for a value matched by two tokens whose boxes do
\* not overlap.
C19_Witness ==
    \E i \in 1..Len(formatted_fields) :
        /\ formatted_fields[i].source.present
        /\ \E j, k \in MatchedTokens(formatted_fields[i].value) :
               word_boxes[j].bbox[3] < word_boxes[k].bbox[1]

\* C20: when at least one token matches a field's value, the source is
\* the smallest axis-aligned box covering the boxes of the matched
\* tokens (it contains each of them and each of its coordinates is the
\* coordinate of a matched token, so no unmatched token influences it),
\* and its page is the page of the first matched token of the index.
C20_HullOfMatchedTokens ==
    \A i \in 1..Len(formatted_fields) :
        LET matched == MatchedTokens(formatted_fields[i].value)
            source == formatted_fields[i].source
            first == CHOOSE k \in matched : \A m \in matched : k <= m
        IN matched # {} =>
              /\ source.present
              /\ \A k \in matched :
                     /\ source.bbox[1] <= word_boxes[k].bbox[1]
                     /\ source.bbox[2] <= word_boxes[k].bbox[2]
                     /\ source.bbox[3] >= word_boxes[k].bbox[3]
                     /\ source.bbox[4] >= word_boxes[k].bbox[4]
              /\ \A c \in 1..4 :
                     \E k \in matched : source.bbox[c] = word_boxes[k].bbox[c]
              /\ source.page = word_boxes[first].page_num

\* A value was matched by two tokens, its box being the box of neither,
\* and in the same call another value by the second token of the index
\* only.
C20_Witness ==
    /\ \E i \in 1..Len(formatted_fields) :
           /\ Cardinality(MatchedTokens(formatted_fields[i].value)) = 2
           /\ \A k \in 1..Len(word_boxes) :
                  formatted_fields[i].source.bbox # word_boxes[k].bbox
    /\ \E i \in 1..Len(formatted_fields) :
           MatchedTokens(formatted_fields[i].value) = {2}

RECURSIVE SplitOnWhitespace(_, _)
\* The whitespace-delimited tokens of a text, in order (cur is the token
\* under way).
SplitOnWhitespace(s, cur) ==
    IF s = <<>> THEN IF cur = <<>> THEN <<>> ELSE <<cur>>
    ELSE IF Head(s) \notin Whitespace
    THEN SplitOnWhitespace(Tail(s), Append(cur, Head(s)))
    ELSE (IF cur = <<>> THEN <<>> ELSE <<cur>>)
         \o SplitOnWhitespace(Tail(s), <<>>)

\* The token set of a value as stated: every character that is no word
\* character, whitespace or dot stripped, lower-cased, split on
\* whitespace.
StatedValueTokens(value) ==
    LET Kept(c) == c \in WordChars \cup Whitespace \cup {"."}
        tokens == SplitOnWhitespace(Lower(SelectSeq(value, Kept)), <<>>)
    IN {tokens[i] : i \in 1..Len(tokens)}

\* The positions of the tokens that match a value as stated.
StatedMatches(value) ==
    {k \in 1..Len(word_boxes) :
        Lower(word_boxes[k].word) \in StatedValueTokens(value)}

\* C21: a token matches a field's value exactly when its lower-cased text
\* is in the value's token set (non-word, non-space, non-dot characters
\* stripped, lower-cased, split on whitespace; "100.00" is matched by a
\* token "100.00"): a source is returned if and only if such a token
\* exists, and it aggregates exactly those tokens.
C21_MatchByValueTokens ==
    \A i \in 1..Len(formatted_fields) :
        LET matched == StatedMatches(formatted_fields[i].value)
            source == formatted_fields[i].source
        IN /\ source.present <=> matched # {}
           /\ source.present =>
                  \A c \in 1..4 :
                      \E k \in matched :
                          source.bbox[c] = word_boxes[k].bbox[c]

\* The field of value "100.00" was emitted without a source although the
\* token index holds the token "100.00".
DecimalAmountNotGrounded ==
    \E i \in 1..Len(formatted_fields) :
        /\ formatted_fields[i].value = S_100_00
        /\ \E k \in 1..Len(word_boxes) : word_boxes[k].word = S_100_00
        /\ ~formatted_fields[i].source.present

\* re.sub(r'[^\w\s.]', '', text).strip().lower()
NormalizedForSubstring(text) ==
    LET Kept(c) == c \in WordChars \cup Whitespace \cup {"."}
    IN Lower(Strip(SelectSeq(text, Kept)))

\* The positions of the tokens that are a substring match of a value, in
\* either direction, both normalized.
SubstringMatches(value) ==
    {k \in 1..Len(word_boxes) :
        \/ IsSubstring(NormalizedForSubstring(value),
                       NormalizedForSubstring(word_boxes[k].word))
        \/ IsSubstring(NormalizedForSubstring(word_boxes[k].word),
                       NormalizedForSubstring(value))}

\* C22: the matcher of the emitted fields aggregates the word-level
\* matches when there is one, the substring match then not being used;
\* when no token is a word-level match but some token is a substring
\* match (either direction) of the normalized value, a source is still
\* returned: the page and box of that token.
C22_SubstringFallback ==
    \A i \in 1..Len(formatted_fields) :
        LET value == formatted_fields[i].value
            source == formatted_fields[i].source
            words == MatchedTokens(value)
            substrings == SubstringMatches(value)
        IN value # <<>> =>
              /\ words # {} =>
                     /\ source.present
                     /\ \A c \in 1..4 : \E k \in words :
                            source.bbox[c] = word_boxes[k].bbox[c]
              /\ (words = {} /\ substrings # {}) =>
                     /\ source.present
                     /\ \E k \in substrings :
                            /\ source.page = word_boxes[k].page_num
                            /\ source.bbox = word_boxes[k].bbox

\* A field was emitted without a source although a token is a substring
\* of its value (and no token a word-level match).
FallbackNotApplied ==
    \E i \in 1..Len(formatted_fields) :
        /\ formatted_fields[i].value # <<>>
        /\ MatchedTokens(formatted_fields[i].value) = {}
        /\ \E k \in SubstringMatches(formatted_fields[i].value) :
               /\ word_boxes[k].word # formatted_fields[i].value
               /\ IsSubstring(Lower(word_boxes[k].word),
                              Lower(formatted_fields[i].value))
        /\ ~formatted_fields[i].source.present

\* The orderings of a token index: the same tokens in every order.
Reorderings(boxes) ==
    LET n == Len(boxes)
        orders == {f \in [1..n -> 1..n] : \A i, j \in 1..n : f[i] = f[j] => i = j}
    IN {[i \in 1..n |-> boxes[f[i]]] : f \in orders}

\* C23 as stated: for every emitted value and every permutation of the
\* token index the grounding matcher returns the same result: same
\* presence, same bbox, same page.
C23_OrderIndependent ==
    \A i \in 1..Len(formatted_fields) :
        \A permuted \in Reorderings(word_boxes) :
            FindBboxForValue(formatted_fields[i].value, permuted)
                = formatted_fields[i].source

\* C23, amended: for every emitted value and every permutation of the
\* token index the grounding matcher returns the same presence and the
\* same bbox; the page is the page of one of the matched tokens (the
\* first in the order given), hence the same whenever the matched tokens
\* are all on one page.
C23_OrderIndependentBox ==
    \A i \in 1..Len(formatted_fields) :
        \A permuted \in Reorderings(word_boxes) :
            LET source == formatted_fields[i].source
                again == FindBboxForValue(formatted_fields[i].value, permuted)
                pages == {word_boxes[k].page_num :
                             k \in MatchedTokens(formatted_fields[i].value)}
            IN /\ again.present = source.present
               /\ again.bbox = source.bbox
               /\ source.present =>
                      /\ again.page \in pages
                      /\ source.page \in pages
                      /\ Cardinality(pages) = 1 => again.page = source.page

\* A value matched by two tokens of different pages was grounded: the
\* other order of the index gives the same box and another page.
C23_Witness ==
    \E i \in 1..Len(formatted_fields) :
        /\ formatted_fields[i].source.present
        /\ \E permuted \in Reorderings(word_boxes) :
               LET again == FindBboxForValue(formatted_fields[i].value, permuted)
               IN /\ again.bbox = formatted_fields[i].source.bbox
                  /\ again.page # formatted_fields[i].source.page

\* The arguments of the scoring operations and of run_validation.
ScoringInputs ==
    <<extracted_data, qa_results, llm_raw_outputs, word_boxes, v_doc_type, v_data>>

\* What a call has produced so far is what each operation gives again on
\* the call's arguments: the consistency map (for the runs in every
\* order), each field's composite confidence and source, the overall
\* confidence, and the validation result or exception.
RepeatedCallsAgree ==
    /\ spc \in {"emit", "done"} =>
           \A runs \in Reorderings(llm_raw_outputs) :
               CalculateLlmConsistency(extracted_data, runs) = llm_consistency_scores
    /\ Len(trace) = Len(formatted_fields)
    /\ \A i \in 1..Len(formatted_fields) :
           LET field == formatted_fields[i]
           IN /\ trace[i] = CompositeCall(field.name, field.value,
                                          llm_consistency_scores, qa_results,
                                          word_boxes)
              /\ field.confidence \in Round2(trace[i].composite)
              /\ field.source = FindBboxForValue(field.value, word_boxes)
    /\ spc = "done" =>
           overall_confidence \in
               CalculateOverallConfidence(formatted_fields, qa_results)
    /\ vpc = "returned" => v_result = RunValidation(v_doc_type, v_data)[2]
    /\ vpc = "raised" => v_exception = RunValidation(v_doc_type, v_data)[1]

StageOrder ==
    <<"process_document", "classify_document_type", "extract_document_data",
      "_format_extracted_data">>

\* The report of the run is an error report.
IsErrorReport == final_output.doc_type = S_error

\* C25: run_extraction runs OCR, classification, extraction and report
\* assembly in this order and the first failing stage ends the run: a
\* stage is called only after every stage before it succeeded, a failed
\* stage is the last call and leaves an error report, a non-error report
\* is returned only after all three stages succeeded and carries the type
\* classification returned (invoice, medical_bill or prescription), and
\* no report carries schema_missing.
C25_StagesInOrder ==
    /\ Len(calls) <= Len(StageOrder)
    /\ \A i \in 1..Len(calls) :
           /\ calls[i][1] = StageOrder[i]
           /\ i < Len(calls) => calls[i][2] = "ok"
    /\ \A i \in 1..Len(calls) :
           (i <= 3 /\ calls[i][2] # "ok") =>
               /\ i = Len(calls)
               /\ \/ pc = "returned" /\ IsErrorReport
                  \/ /\ pc = "raised"
                     /\ calls[i] = <<"classify_document_type", "raised">>
    /\ detected_doc_type \in allowed_types \cup {S_unknown, <<>>}
    /\ (Len(calls) >= 3) => detected_doc_type \in allowed_types
    /\ (pc = "returned" /\ ~IsErrorReport) =>
           /\ Len(calls) = 4
           /\ \A i \in 1..3 : calls[i][2] = "ok"
           /\ final_output.doc_type = detected_doc_type
           /\ final_output.doc_type \in allowed_types
    /\ \A i \in 1..Len(final_output.qa.failed_rules) :
           final_output.qa.failed_rules[i] # S_schema_missing

\* A run returned a non-error report after its four stages.
C25_Witness ==
    /\ pc = "returned"
    /\ ~IsErrorReport
    /\ Len(calls) = 4
    /\ final_output.doc_type = S_invoice

\* A run ended at classification: the reply was not an allowed type.
C25_WitnessUnknown ==
    /\ pc = "returned"
    /\ IsErrorReport
    /\ Len(calls) = 2
    /\ calls[2] = <<"classify_document_type", "unknown">>
    /\ final_output.qa.failed_rules = <<S_classification_failed>>

====
